---- MODULE Spec2Model ----
(***************************************************************************)
(* The generation orchestrator of astrbot_plugin_CodeMage                  *)
(* (plugin_generator.py, driven by the command handlers of main.py).       *)
(*                                                                         *)
(* Every handler invocation is a coroutine.  One action of this module is  *)
(* one atomic segment of a coroutine: the code that runs between two       *)
(* suspension points (await of an LLM request, of event.send, or a yield   *)
(* of the command handler).  Consecutive awaits with no access to shared   *)
(* state between them are one wait; the retried requests inside one call   *)
(* of the LLM handler are one wait.                                        *)
(*                                                                         *)
(* Python dictionaries are objects: pending_generation["metadata"] and a   *)
(* handler's local `metadata` may be the same object, so metadata lives in *)
(* `heap` and is named by reference.                                       *)
(***************************************************************************)
EXTENDS Integers, Sequences, FiniteSets, TLC

\* ---------------------------------------------------------------- bounds
\* number of handler invocations (coroutines) in flight at the same time
MaxActive == 2
\* number of distinct plugin descriptions a generate command may carry
MaxDescriptions == 2
\* number of commands the bot receives
MaxCommands == 3

CallIds == 1..MaxActive
Descriptions == 1..MaxDescriptions
\* one object per holder of a reference (the pending record and each
\* coroutine) and one for the object being built
ObjIds == 1..(MaxActive + 2)

\* ---------------------------------------------------------------- values
PREFIX == "astrbot_plugin_"

\* A plugin name is a sequence of segments; the name "astrbot_plugin_clock"
\* is <<PREFIX, "clock">>, so that str.startswith and concatenation are
\* computed and not assumed.
RawNames == { <<"Weather">>, <<PREFIX, "clock">> }

\* the document a generation request returns, and the one a modification
\* or optimization request returns
GeneratedDoc == "docA"
ModifiedDoc == "docB"

NoText == [json |-> "", layout |-> "empty"]
\* what generate_config_schema returns: a text json.loads accepts
GeneratedConfigs == { [json |-> "cfgA", layout |-> "raw"] }
\* what modify_config_schema returns: any extracted block
ModifiedConfigs == { [json |-> "cfgB", layout |-> "raw"],
                     [json |-> "cfgX", layout |-> "invalid"] }

ReviewResults == { [approved |-> TRUE, satisfaction_score |-> 90],
                   [approved |-> TRUE, satisfaction_score |-> 50],
                   [approved |-> FALSE, satisfaction_score |-> 90] }
\* the default result of _review_code_with_retry (lines 1137-1151)
NoReview == [approved |-> FALSE, satisfaction_score |-> 0]

\* main.py line 336: valid_types
ModificationTypes == { "config", "docs", "metadata", "all" }

\* a message event object of a command handler, and the absence of one
Event == "event"
None == "None"

VARIABLES
    generation_status,
    pending_generation,
    heap,
    state_file,
    installed,
    config,
    tasks,
    last_return,
    commands,
    report,
    call

vars == << generation_status, pending_generation, heap, state_file,
           installed, config, tasks, last_return, commands, report, call >>

\* ---------------------------------------------------------------- names
startswith(name, prefix) == Len(name) > 0 /\ name[1] = prefix

sanitize_segment(s) == IF s = "Weather" THEN "weather" ELSE s

sanitize_plugin_name(name) == [i \in 1..Len(name) |-> sanitize_segment(name[i])]

\* a normalization that forgets the prefix
NormalizeNameNoPrefix(raw) == sanitize_plugin_name(raw)

\* lines 684-690, 881-885, 918-921, 1274-1277, 1309-1312
NormalizeName(raw) ==
    LET plugin_name == sanitize_plugin_name(raw)
    IN  IF ~startswith(plugin_name, PREFIX)
        THEN <<PREFIX>> \o plugin_name
        ELSE plugin_name

check_plugin_exists(name) == name \in installed

\* ---------------------------------------------------------------- heap
FreeCell == [live |-> FALSE, name |-> <<>>, markdown |-> "", origin |-> ""]
EmptyDict == [live |-> TRUE, name |-> <<>>, markdown |-> "", origin |-> ""]
\* a metadata dict: its name, its "markdown" entry, and the LLM request
\* that produced the rest of its content
MetaObj(name, markdown, origin) ==
    [live |-> TRUE, name |-> name, markdown |-> markdown, origin |-> origin]

\* reference 0 is the empty dict {} of an inactive pending record
Deref(h, r) == IF r = 0 THEN EmptyDict ELSE h[r]

Alloc(h) ==
    CHOOSE i \in ObjIds :
        /\ ~h[i].live
        /\ \A j \in ObjIds : ~h[j].live => i <= j

Running(tk) == tk.pc # "free"

\* the references held, in a fixed order of the holders: the pending
\* record, then the coroutine of each slot
HeldRefs(ts, p) ==
    <<p.metadata>> \o [t \in CallIds |-> IF Running(ts[t]) THEN ts[t].metadata ELSE 0]

\* Object identity carries no information but aliasing: the objects still
\* referred to are renamed in the order of their first holder (Renaming
\* maps the old reference to the new one), the others are dropped.
Renaming(ts, p) ==
    LET held == HeldRefs(ts, p)
        first == [r \in ObjIds |->
                    IF \E k \in DOMAIN held : held[k] = r
                    THEN CHOOSE k \in DOMAIN held :
                            held[k] = r /\ \A j \in 1..(k - 1) : held[j] # r
                    ELSE 0]
    IN  [r \in ObjIds \cup {0} |->
            IF r = 0 \/ first[r] = 0 THEN 0
            ELSE Cardinality({ q \in ObjIds : first[q] # 0 /\ first[q] <= first[r] })]

Collect(h, m) ==
    [i \in ObjIds |->
        IF \E r \in ObjIds : m[r] = i
        THEN h[CHOOSE r \in ObjIds : m[r] = i]
        ELSE FreeCell]

\* ---------------------------------------------------------------- records
\* __init__, lines 38-53
InitialStatus ==
    [is_generating |-> FALSE, current_step |-> 0, total_steps |-> 6,
     progress_percentage |-> 0, plugin_name |-> <<>>]

\* _update_status, lines 158-168
update_status(gs, step, plugin_name) ==
    [gs EXCEPT !.current_step = step,
               !.progress_percentage = (step * 100) \div gs.total_steps,
               !.plugin_name = IF plugin_name # <<>> THEN plugin_name ELSE @]

\* a finally block that resets nothing
KeepsStatus(gs) == gs

\* the finally block of generate_plugin_flow and continue_plugin_generation
ResetStatus(gs) ==
    [gs EXCEPT !.is_generating = FALSE, !.current_step = 0,
               !.progress_percentage = 0, !.plugin_name = <<>>]

\* __init__, lines 56-67
EmptyPending ==
    [active |-> FALSE, metadata |-> 0, markdown |-> "", config_schema |-> NoText,
     description |-> 0, event |-> None, umo |-> "", timestamp |-> 0,
     awaiting_confirmation |-> FALSE, modification_history |-> <<>>]

NoFile == [exists |-> FALSE]

\* a record written without the description
SavedKeysWithoutDescription ==
    { "active", "metadata", "markdown", "config_schema",
      "umo", "timestamp", "awaiting_confirmation", "modification_history" }

\* the keys _save_pending_state writes: every key of the task but "event"
SavedKeys ==
    { "active", "metadata", "markdown", "config_schema", "description",
      "umo", "timestamp", "awaiting_confirmation", "modification_history" }

\* the value of a pending record field, metadata by content
FieldValue(p, h, k) == IF k = "metadata" THEN Deref(h, p.metadata) ELSE p[k]

\* _save_pending_state: json.dump of the serializable fields; the metadata
\* dict is written by content, the event object is left out
save_pending_state(p, h) ==
    [exists |-> TRUE, data |-> [k \in SavedKeys |-> FieldValue(p, h, k)]]

\* the defaults of data.get in _load_pending_state
DefaultField(k) ==
    IF k = "metadata" THEN EmptyDict ELSE EmptyPending[k]

\* data.get(key, default)
DataGet(data, k) == IF k \in DOMAIN data THEN data[k] ELSE DefaultField(k)

\* the keys _load_pending_state updates, lines 135-145
LoadedKeys ==
    { "active", "metadata", "markdown", "config_schema", "description",
      "umo", "timestamp", "awaiting_confirmation", "modification_history" }

\* _load_pending_state: pending_generation.update(...) with the parsed
\* fields; json.load builds a new metadata dict, stored at reference r;
\* "event" is not among the updated keys
LoadedPending(p, f, r) ==
    [k \in DOMAIN p |->
        IF k = "metadata" THEN r
        ELSE IF k \in LoadedKeys THEN DataGet(f.data, k)
        ELSE p[k]]

LoadedHeap(h, f, r) == [h EXCEPT ![r] = DataGet(f.data, "metadata")]

\* `if not self.pending_generation["active"]: self._load_pending_state()`
\* and the os.path.exists test of line 131
NeedsLoad(p, f) == ~p.active /\ f.exists

PendingAfterLoad(p, h, f) ==
    IF NeedsLoad(p, f) THEN LoadedPending(p, f, Alloc(h)) ELSE p

HeapAfterLoad(p, h, f) ==
    IF NeedsLoad(p, f) THEN LoadedHeap(h, f, Alloc(h)) ELSE h

\* ---------------------------------------------------------------- results
NoResult == [returned |-> "no", success |-> FALSE, error |-> "", pending_confirmation |-> FALSE]
Failure(msg) == [returned |-> "dict", success |-> FALSE, error |-> msg, pending_confirmation |-> FALSE]
PendingConfirmation ==
    [returned |-> "dict", success |-> FALSE, error |-> "awaiting_confirmation",
     pending_confirmation |-> TRUE]
Success == [returned |-> "dict", success |-> TRUE, error |-> "", pending_confirmation |-> FALSE]
\* a coroutine that falls off its end returns None
ReturnsNone == [returned |-> "None", success |-> FALSE, error |-> "", pending_confirmation |-> FALSE]

\* no coroutine returned in the last step
NoReturn ==
    [kind |-> "none", feedback |-> FALSE,
     modification_type |-> "", result |-> NoResult,
     requested |-> FALSE, notified |-> FALSE]

\* nothing was read of the pending task
NoView == [metadata |-> EmptyDict, markdown |-> "", config_schema |-> NoText,
           file |-> NoFile]

\* the pending task as it is in memory and in the persisted record
PendingView(p, h, f) ==
    [metadata |-> Deref(h, p.metadata), markdown |-> p.markdown,
     config_schema |-> p.config_schema, file |-> f]

\* a free coroutine slot; the fields are the locals of the handlers, and
\* `seen`, the pending task as modify_plugin_content found it
FreeTask ==
    [kind |-> "none", pc |-> "free", event |-> None, description |-> 0,
     approved |-> FALSE, feedback |-> FALSE, modification_type |-> "",
     metadata |-> 0, markdown_doc |-> "", config_schema |-> NoText,
     plugin_name |-> <<>>, code |-> -1, review_result |-> NoReview,
     attempt |-> 0, restore_api_pwd |-> FALSE, saved_api_pwd |-> "",
     request |-> "", requested |-> FALSE, notified |-> FALSE, seen |-> NoView]

\* no static audit was made: the auditors of code_audit.py, code_auditor.py
\* and static_audit.py are imported by no module of the plugin
NoReport == [auditor |-> ""]

\* no helper of the pipeline is being called on its own
NoCall == [fn |-> ""]

\* ---------------------------------------------------------------- Init
\* the configurations: the flags with the default installation (no API
\* password), and the forced file installation with an API password
Configs ==
    [auto_approve : BOOLEAN, step_by_step : BOOLEAN,
     install_method : {"auto"}, api_password_md5 : {""},
     satisfaction_threshold : {80}, max_retries : {1}]
    \cup
    [auto_approve : {FALSE}, step_by_step : {FALSE},
     install_method : {"file"}, api_password_md5 : {"md5"},
     satisfaction_threshold : {80}, max_retries : {1}]

Init ==
    /\ generation_status = InitialStatus
    /\ pending_generation = EmptyPending
    /\ heap = [i \in ObjIds |-> FreeCell]
    /\ state_file = NoFile
    /\ installed = { <<PREFIX, "clock">> }
    /\ config \in Configs
    /\ tasks = [t \in CallIds |-> FreeTask]
    /\ last_return = NoReturn
    /\ commands = 0
    /\ report = NoReport
    /\ call = NoCall

\* ---------------------------------------------------------------- helpers
InFlight == { t \in CallIds : Running(tasks[t]) }

\* a new command is dispatched to the first free coroutine slot
CanCall(t) ==
    /\ commands < MaxCommands
    /\ ~Running(tasks[t])
    /\ \A u \in CallIds : ~Running(tasks[u]) => t <= u

\* what a returning coroutine hands to its caller, with what it did
Returned(tk, res) ==
    [kind |-> tk.kind, feedback |-> tk.feedback,
     modification_type |-> tk.modification_type,
     result |-> res, requested |-> tk.requested, notified |-> tk.notified]

\* the next pending record, coroutines and heap, with the objects renamed
Commit(p, ts, h) ==
    LET m == Renaming(ts, p) IN
    /\ pending_generation' = [p EXCEPT !.metadata = m[@]]
    /\ tasks' = [t \in CallIds |-> [ts[t] EXCEPT !.metadata = m[@]]]
    /\ heap' = Collect(h, m)

\* a command is counted when its handler starts in a free slot
Counted(t) == IF Running(tasks[t]) THEN commands ELSE commands + 1

\* the coroutine of slot t goes on to its next suspension point as tk
Step(t, tk, p, h) ==
    /\ Commit(p, [tasks EXCEPT ![t] = tk], h)
    /\ last_return' = NoReturn
    /\ commands' = Counted(t)
    /\ UNCHANGED << report, call >>

\* the coroutine of slot t returns res: its locals die
Return(t, tk, res, p, h) ==
    /\ Commit(p, [tasks EXCEPT ![t] = FreeTask], h)
    /\ last_return' = Returned(tk, res)
    /\ commands' = Counted(t)
    /\ UNCHANGED << report, call >>

\* the coroutine issues an LLM request of this kind and awaits its answer
Request(tk, kind) == [tk EXCEPT !.request = kind, !.requested = TRUE]

\* the coroutine calls event.send n times
Sends(tk, n) == [tk EXCEPT !.notified = @ \/ n > 0]

\* the coroutine calls event.send n times and awaits no LLM request
SendsOnly(tk, n) == [Sends(tk, n) EXCEPT !.request = ""]

\* _normalize_config_schema: json.loads then json.dumps(indent=2); a text
\* json.loads rejects is returned as it is
normalize_config_schema(c) ==
    IF c.layout = "empty" THEN NoText
    ELSE IF c.layout = "invalid" THEN c
    ELSE [c EXCEPT !.layout = "indent2"]

\* _send_doc_and_config_images: one image per non-empty text
ImagesSent(markdown, config_schema) ==
    (IF markdown # "" THEN 1 ELSE 0) + (IF config_schema.layout # "empty" THEN 1 ELSE 0)

\* a finally block that leaves the password blank
LeavesPasswordBlank(cfg, tk) == cfg

\* lines 785-790: the api password is restored when it was blanked
RestoredConfig(cfg, tk) ==
    IF tk.restore_api_pwd
    THEN [cfg EXCEPT !.api_password_md5 = tk.saved_api_pwd]
    ELSE cfg

\* a return through the finally block of generate_plugin_flow (lines
\* 784-794) or of continue_plugin_generation (lines 1103-1114, where
\* restore_api_pwd is no name of the function and nothing is restored)
ReturnFinally(t, tk, res, p, h) ==
    /\ Return(t, tk, res, p, h)
    /\ generation_status' = ResetStatus(generation_status)
    /\ config' = RestoredConfig(config, tk)

\* the guard that is never taken
NeverGenerating(gs) == FALSE

\* ---------------------------------------------------------------- generate_plugin_flow
\* line 603
IsGenerating(gs) == gs.is_generating

\* lines 614-637: the install method decides whether the API is used
UseApiInstall(cfg) ==
    IF cfg.install_method = "api" THEN cfg.api_password_md5 # ""
    ELSE IF cfg.install_method = "file" THEN FALSE
    ELSE cfg.api_password_md5 # ""

\* lines 619-622 and 628-631: the api password is blanked to force the
\* file installation
BlanksPassword(cfg) ==
    \/ cfg.install_method = "api" /\ cfg.api_password_md5 = ""
    \/ cfg.install_method = "file" /\ cfg.api_password_md5 # ""

\* lines 593-661: the call up to the metadata request
generate_plugin_flow(t, d) ==
    /\ CanCall(t)
    /\ UNCHANGED << state_file, installed >>
    /\ LET tk == [FreeTask EXCEPT !.kind = "generate", !.event = Event,
                                  !.description = d]
       IN  IF IsGenerating(generation_status)
           THEN /\ Return(t, tk, Failure("busy"), pending_generation, heap)
                /\ UNCHANGED << generation_status, config >>
           ELSE \E valid \in BOOLEAN :
                LET use_api == UseApiInstall(config)
                    warned == IF config.install_method = "api" /\ ~use_api THEN 1 ELSE 0
                    tk1 == [tk EXCEPT !.restore_api_pwd = BlanksPassword(config),
                                      !.saved_api_pwd = config.api_password_md5]
                IN  /\ config' = IF BlanksPassword(config)
                                  THEN [config EXCEPT !.api_password_md5 = ""]
                                  ELSE config
                    /\ IF ~valid /\ ~use_api
                       THEN /\ generation_status' =
                                   [generation_status EXCEPT !.is_generating = TRUE]
                            /\ Step(t, [SendsOnly(tk1, warned + 1) EXCEPT !.pc = "g_dir_invalid"],
                                    pending_generation, heap)
                       ELSE /\ generation_status' =
                                   update_status([generation_status EXCEPT
                                                     !.is_generating = TRUE], 1, <<>>)
                            /\ Step(t, [Request(Sends(tk1, warned + 1), "metadata")
                                          EXCEPT !.pc = "g_metadata"],
                                    pending_generation, heap)

\* lines 649-652: the directory check failed, the message was sent
g_dir_invalid(t) ==
    /\ tasks[t].pc = "g_dir_invalid"
    /\ ReturnFinally(t, tasks[t], Failure("dir_invalid"), pending_generation, heap)
    /\ UNCHANGED << state_file, installed >>

\* the "markdown" entry a metadata answer may carry
EmbeddedDocs(step_by_step, doc) == IF step_by_step THEN {""} ELSE {"", doc}

\* lines 662-704: the metadata request returns
g_metadata(t) ==
    /\ tasks[t].pc = "g_metadata"
    /\ UNCHANGED << state_file, installed >>
    /\ \/ ReturnFinally(t, tasks[t], Failure("metadata_failed"), pending_generation, heap)
       \/ ReturnFinally(t, tasks[t], Failure("metadata_format"), pending_generation, heap)
       \/ \E raw \in RawNames, md \in EmbeddedDocs(config.step_by_step, GeneratedDoc) :
            LET plugin_name == NormalizeName(raw)
                r == Alloc(heap)
                h == [heap EXCEPT ![r] = MetaObj(plugin_name, md, "generated")]
                tk == [tasks[t] EXCEPT !.metadata = r, !.markdown_doc = md,
                                       !.plugin_name = plugin_name]
            IN  /\ config' = config
                /\ IF check_plugin_exists(plugin_name)
                   THEN /\ generation_status' = update_status(generation_status, 1, plugin_name)
                        /\ Step(t, [SendsOnly(tk, 1) EXCEPT !.pc = "g_exists"],
                                pending_generation, h)
                   ELSE /\ generation_status' = update_status(generation_status, 2, plugin_name)
                        /\ Step(t, [(IF config.step_by_step \/ md = ""
                                     THEN Request(Sends(tk, 1), "docs")
                                     ELSE SendsOnly(tk, 1))
                                       EXCEPT !.pc = "g_docs"],
                                pending_generation, h)

\* lines 695-700: the plugin exists, the message was sent
g_exists(t) ==
    /\ tasks[t].pc = "g_exists"
    /\ UNCHANGED << state_file, installed >>
    /\ ReturnFinally(t, tasks[t], Failure("already_exists"), pending_generation, heap)

\* line 706: a document request was issued
DocRequested(tk) == tk.request = "docs"

\* lines 705-721: the document request returns (or no document was needed)
g_docs(t) ==
    /\ tasks[t].pc = "g_docs"
    /\ UNCHANGED << state_file, installed >>
    /\ \/ /\ DocRequested(tasks[t])
          /\ ReturnFinally(t, tasks[t], Failure("docs_failed"), pending_generation, heap)
       \/ LET d == IF DocRequested(tasks[t]) THEN GeneratedDoc ELSE tasks[t].markdown_doc
              tk == [tasks[t] EXCEPT !.markdown_doc = d]
          IN  /\ config' = config
              /\ generation_status' = update_status(generation_status, 3, tk.plugin_name)
              /\ Step(t, [Request(Sends(tk, 1), "config") EXCEPT !.pc = "g_config"],
                      pending_generation, [heap EXCEPT ![tk.metadata].markdown = d])

\* the messages come from one conversation
unified_msg_origin == "origin"

\* format_time(time.time()): the time the plan of a request was completed
format_time(tk) == tk.description

\* a flow that never waits for a confirmation
NoConfirmation(cfg) == FALSE

\* line 737
ConfirmationRequired(cfg) == ~cfg.auto_approve

\* lines 739-750: the task as stored for confirmation
PendingTask(tk) ==
    [active |-> TRUE, metadata |-> tk.metadata, markdown |-> tk.markdown_doc,
     config_schema |-> tk.config_schema, description |-> tk.description,
     event |-> tk.event, umo |-> unified_msg_origin, timestamp |-> format_time(tk),
     awaiting_confirmation |-> TRUE, modification_history |-> <<>>]

\* lines 722-768: the config request returns, the plan is shown, and the
\* confirmation gate decides
g_config(t) ==
    /\ tasks[t].pc = "g_config"
    /\ installed' = installed
    /\ \/ /\ ReturnFinally(t, tasks[t], Failure("config_failed"), pending_generation, heap)
          /\ state_file' = state_file
       \/ \E c \in GeneratedConfigs :
            LET tk == [tasks[t] EXCEPT !.config_schema = normalize_config_schema(c)]
                shown == 1 + ImagesSent(tk.markdown_doc, tk.config_schema)
            IN  /\ config' = config
                /\ IF ConfirmationRequired(config)
                   THEN /\ state_file' = save_pending_state(PendingTask(tk), heap)
                        /\ generation_status' = generation_status
                        /\ Step(t, [SendsOnly(tk, shown + 1) EXCEPT !.pc = "g_confirm"],
                                PendingTask(tk), heap)
                   ELSE /\ UNCHANGED << generation_status, state_file >>
                        /\ Step(t, [SendsOnly(tk, shown + 1) EXCEPT !.pc = "g_auto"],
                                pending_generation, heap)

\* lines 754-759: the confirmation prompt was sent
g_confirm(t) ==
    /\ tasks[t].pc = "g_confirm"
    /\ UNCHANGED << state_file, installed >>
    /\ ReturnFinally(t, tasks[t], PendingConfirmation, pending_generation, heap)

\* lines 761-768: the automatic approval was announced; the code request
g_auto(t) ==
    /\ tasks[t].pc = "g_auto"
    /\ UNCHANGED << state_file, installed, config >>
    /\ generation_status' = update_status(generation_status, 4, tasks[t].plugin_name)
    /\ Step(t, [Request(Sends(tasks[t], 1), "code") EXCEPT !.pc = "g_code"],
            pending_generation, heap)

\* lines 768-794: the code request returns; the function ends after it
g_code(t) ==
    /\ tasks[t].pc = "g_code"
    /\ UNCHANGED << state_file, installed >>
    /\ \/ ReturnFinally(t, tasks[t], Failure("code_failed"), pending_generation, heap)
       \/ ReturnFinally(t, tasks[t], ReturnsNone, pending_generation, heap)

\* ---------------------------------------------------------------- approve and reject
\* get_pending_generation (lines 796-808) as called by the handlers of
\* main.py, which reply and stop when no task is active, and otherwise
\* yield before they call the generator
get_pending_generation(t, tk, next) ==
    LET p == PendingAfterLoad(pending_generation, heap, state_file)
        h == HeapAfterLoad(pending_generation, heap, state_file)
    IN  IF ~p.active
        THEN Return(t, tk, Failure("no_pending_task"), p, h)
        ELSE Step(t, [tk EXCEPT !.pc = next], p, h)

\* main.py approve_generation, lines 244-270
approve_generation(t, fb) ==
    /\ CanCall(t)
    /\ UNCHANGED << generation_status, state_file, installed, config >>
    /\ get_pending_generation(t, [FreeTask EXCEPT !.kind = "approve", !.event = Event,
                                                  !.approved = TRUE, !.feedback = fb],
                              "c_entry")

\* lines 853-861 and 1246-1254: the locals of continue_plugin_generation
\* and of modify_plugin_content
ReadPending(tk, p) ==
    [tk EXCEPT !.metadata = p.metadata, !.markdown_doc = p.markdown,
               !.config_schema = p.config_schema]

\* lines 913-929: the rest of the flow starts; the name is normalized in
\* the metadata dict itself, and the code request is issued
BeginCodeGeneration(t, tk, p, h) ==
    LET plugin_name == NormalizeName(Deref(h, tk.metadata).name) IN
    /\ generation_status' =
          update_status([generation_status EXCEPT !.is_generating = TRUE], 4, plugin_name)
    /\ Step(t, [Request(Sends(tk, 1), "code") EXCEPT !.plugin_name = plugin_name,
                                                      !.pc = "c_code"],
            p, [h EXCEPT ![tk.metadata].name = plugin_name])

\* continue_plugin_generation(True, feedback, event), lines 841-929
c_entry(t) ==
    /\ tasks[t].pc = "c_entry"
    /\ UNCHANGED << state_file, installed, config >>
    /\ LET p == PendingAfterLoad(pending_generation, heap, state_file)
           h == HeapAfterLoad(pending_generation, heap, state_file)
           q == [p EXCEPT !.event = tasks[t].event]
       IN  IF ~p.active
           THEN /\ generation_status' = generation_status
                /\ Return(t, tasks[t], Failure("no_pending_task"), p, h)
           ELSE IF tasks[t].feedback
           THEN /\ generation_status' = generation_status
                /\ Step(t, [Request(Sends(ReadPending(tasks[t], p), 1), "optimize")
                              EXCEPT !.pc = "c_optimize"], q, h)
           ELSE BeginCodeGeneration(t, ReadPending(tasks[t], p), q, h)

\* main.py reject_generation (lines 284-308) calls
\* continue_plugin_generation(False) with no suspension in between;
\* lines 841-864
reject_generation(t) ==
    /\ CanCall(t)
    /\ UNCHANGED << generation_status, state_file, installed, config >>
    /\ LET p == PendingAfterLoad(pending_generation, heap, state_file)
           h == HeapAfterLoad(pending_generation, heap, state_file)
           tk == [FreeTask EXCEPT !.kind = "reject", !.event = Event]
       IN  IF ~p.active
           THEN Return(t, tk, Failure("no_pending_task"), p, h)
           ELSE Step(t, [SendsOnly(ReadPending(tk, p), 1) EXCEPT !.pc = "c_rejected"],
                     [p EXCEPT !.event = Event], h)

\* lines 865-868: the refusal was sent
c_rejected(t) ==
    /\ tasks[t].pc = "c_rejected"
    /\ UNCHANGED << generation_status, state_file, installed, config >>
    /\ Return(t, tasks[t], Failure("rejected"), pending_generation, heap)

\* lines 875-890: the optimized metadata returns; the config request
c_optimize(t) ==
    /\ tasks[t].pc = "c_optimize"
    /\ UNCHANGED << generation_status, state_file, installed, config >>
    /\ \/ Return(t, tasks[t], Failure("optimize_failed"), pending_generation, heap)
       \/ \E raw \in RawNames, md \in {"", ModifiedDoc} :
            LET plugin_name == NormalizeName(raw)
                markdown_doc == IF md = "" THEN tasks[t].markdown_doc ELSE md
                r == Alloc(heap)
                tk == [tasks[t] EXCEPT !.metadata = r, !.markdown_doc = markdown_doc,
                                       !.plugin_name = plugin_name]
            IN  Step(t, [Request(tk, "config") EXCEPT !.pc = "c_optimize_config"],
                     pending_generation,
                     [heap EXCEPT ![r] = MetaObj(plugin_name, markdown_doc, "optimized")])

\* lines 890-904: the config of the optimized plan returns, then the
\* existence check
c_optimize_config(t) ==
    /\ tasks[t].pc = "c_optimize_config"
    /\ UNCHANGED << generation_status, state_file, installed, config >>
    /\ \/ Return(t, tasks[t], Failure("optimize_failed"), pending_generation, heap)
       \/ \E c \in GeneratedConfigs :
            LET tk == [tasks[t] EXCEPT !.config_schema = c] IN
            IF check_plugin_exists(tk.plugin_name)
            THEN Step(t, [SendsOnly(tk, 1) EXCEPT !.pc = "c_exists"],
                      pending_generation, heap)
            ELSE Step(t, [SendsOnly(tk, 1 + ImagesSent(tk.markdown_doc, c))
                            EXCEPT !.pc = "c_continue"],
                      pending_generation, heap)

\* lines 894-900: the plugin exists, the message was sent
c_exists(t) ==
    /\ tasks[t].pc = "c_exists"
    /\ UNCHANGED << generation_status, state_file, installed, config >>
    /\ Return(t, tasks[t], Failure("already_exists"), pending_generation, heap)

\* lines 903-929: the optimized plan was shown
c_continue(t) ==
    /\ tasks[t].pc = "c_continue"
    /\ UNCHANGED << state_file, installed, config >>
    /\ BeginCodeGeneration(t, tasks[t], pending_generation, heap)

\* ---------------------------------------------------------------- review and repair
\* line 337: the loop condition of _ensure_code_review_passed
ReviewFails(r, cfg) ==
    (r.satisfaction_score < cfg.satisfaction_threshold) \/ ~r.approved

\* a loop that never gives up
UnlimitedBudget(tk, cfg) == TRUE

\* a budget that only zero exhausts
AnyBudgetIsUnlimited(tk, cfg) == cfg.max_retries # 0

\* line 338
BudgetLeft(tk, cfg) == cfg.max_retries = -1 \/ tk.attempt < cfg.max_retries

\* a gate that lets every review through
EveryReviewPasses(r, cfg) == TRUE

\* line 359
ReviewPassed(r, cfg) ==
    r.approved /\ r.satisfaction_score >= cfg.satisfaction_threshold

\* the count of repairs and the version of the code are followed up to
\* here; past the largest finite budget only their being past it matters
MaxAttempts == 3

\* line 340 (attempt += 1) and line 352 (the code the repair returns)
NextAttempt(n) == IF n < MaxAttempts THEN n + 1 ELSE n

\* lines 337-360 and 966-973 with the review result r in hand; the local
\* review_result is kept where it is read again (line 973)
AfterReview(t, tk, r) ==
    IF ReviewFails(r, config) /\ BudgetLeft(tk, config)
    THEN /\ Step(t, [Request(Sends(tk, 1), "fix") EXCEPT !.attempt = NextAttempt(@),
                                                         !.review_result = r,
                                                         !.pc = "c_fix"],
                 pending_generation, heap)
         /\ UNCHANGED << generation_status, config >>
    ELSE IF ~ReviewPassed(r, config)
    THEN ReturnFinally(t, tk, Failure("review_rejected"), pending_generation, heap)
    ELSE /\ Step(t, [SendsOnly(tk, 1) EXCEPT !.review_result = r, !.pc = "c_passed"],
                 pending_generation, heap)
         /\ UNCHANGED << generation_status, config >>

\* lines 929-945: the code request returns
c_code(t) ==
    /\ tasks[t].pc = "c_code"
    /\ UNCHANGED << state_file, installed >>
    /\ \/ ReturnFinally(t, tasks[t], Failure("code_failed"), pending_generation, heap)
       \/ /\ generation_status' = update_status(generation_status, 5, tasks[t].plugin_name)
          /\ config' = config
          /\ Step(t, [Request(Sends(tasks[t], 1), "review")
                        EXCEPT !.code = 0, !.pc = "c_review"],
                  pending_generation, heap)

\* _review_code_with_retry (lines 1116-1151) returns; a review that failed
\* on every try is the not-approved default result
c_review(t) ==
    /\ tasks[t].pc = "c_review"
    /\ UNCHANGED << state_file, installed >>
    /\ \E r \in ReviewResults \cup { NoReview } : AfterReview(t, tasks[t], r)

\* fix_plugin_code (llm_handler.py lines 528-578, called at line 352)
\* returns repaired code, or raises after its retries (lines 353-355)
c_fix(t) ==
    /\ tasks[t].pc = "c_fix"
    /\ UNCHANGED << state_file, installed >>
    /\ \/ /\ Step(t, [Request(tasks[t], "review")
                        EXCEPT !.code = NextAttempt(@), !.pc = "c_review_again"],
                  pending_generation, heap)
          /\ UNCHANGED << generation_status, config >>
       \/ ReturnFinally(t, tasks[t], Failure("review_flow_failed"), pending_generation, heap)

\* lines 356-358: the review of the repaired code
c_review_again(t) ==
    /\ tasks[t].pc = "c_review_again"
    /\ UNCHANGED << state_file, installed >>
    /\ \/ ReturnFinally(t, tasks[t], Failure("review_flow_failed"), pending_generation, heap)
       \/ \E r \in ReviewResults : AfterReview(t, tasks[t], r)

\* lines 973-977: the passed review was announced
c_passed(t) ==
    /\ tasks[t].pc = "c_passed"
    /\ UNCHANGED << state_file, installed, config >>
    /\ generation_status' = update_status(generation_status, 6, tasks[t].plugin_name)
    /\ Step(t, [SendsOnly(tasks[t], 1) EXCEPT !.pc = "c_install"], pending_generation, heap)

\* line 987
ApiEnabled(cfg) == cfg.api_password_md5 # ""

\* lines 987-1094: `install_method` is no name of continue_plugin_generation,
\* so evaluating line 993 with api_enabled raises NameError, caught at line
\* 1098; otherwise the plugin is installed as files (_install_via_file,
\* lines 450-479, which deletes the plugin's files first)
c_install(t) ==
    /\ tasks[t].pc = "c_install"
    /\ state_file' = state_file
    /\ IF ApiEnabled(config)
       THEN /\ ReturnFinally(t, tasks[t], Failure("exception"), pending_generation, heap)
            /\ installed' = installed
       ELSE \/ /\ ReturnFinally(t, tasks[t], Failure("file_install_failed"),
                                pending_generation, heap)
               /\ installed' \in { installed, installed \ { tasks[t].plugin_name } }
            \/ /\ installed' = installed \cup { tasks[t].plugin_name }
               /\ Step(t, [SendsOnly(tasks[t], 1) EXCEPT !.pc = "c_installed"],
                       pending_generation, heap)
               /\ UNCHANGED << generation_status, config >>

\* lines 1085-1096: the installation was announced
c_installed(t) ==
    /\ tasks[t].pc = "c_installed"
    /\ UNCHANGED << state_file, installed >>
    /\ ReturnFinally(t, tasks[t], Success, pending_generation, heap)

\* ---------------------------------------------------------------- modify_plugin_content
\* main.py modify_plugin_content, lines 310-352: the check of the pending
\* task, the modification type, the reply
modify_plugin_content(t, ty) ==
    /\ CanCall(t)
    /\ UNCHANGED << generation_status, state_file, installed, config >>
    /\ get_pending_generation(t, [FreeTask EXCEPT !.kind = "modify", !.event = Event,
                                                  !.modification_type = ty],
                              "m_entry")

\* the request each modification type starts with (lines 1260, 1267,
\* 1274, 1299-1305)
FirstRequest(ty) ==
    IF ty = "config" THEN "modify_config"
    ELSE IF ty = "docs" THEN "modify_docs"
    ELSE IF ty = "metadata" THEN "modify_metadata"
    ELSE "metadata"

FirstWait(ty) ==
    IF ty = "config" THEN "m_config"
    ELSE IF ty = "docs" THEN "m_docs"
    ELSE IF ty = "metadata" THEN "m_metadata"
    ELSE "m_all_metadata"

\* PluginGenerator.modify_plugin_content, lines 1234-1305: up to the first
\* request
m_entry(t) ==
    /\ tasks[t].pc = "m_entry"
    /\ UNCHANGED << generation_status, state_file, installed, config >>
    /\ LET p == PendingAfterLoad(pending_generation, heap, state_file)
           h == HeapAfterLoad(pending_generation, heap, state_file)
           ty == tasks[t].modification_type
       IN  IF ~p.active
           THEN Return(t, tasks[t], Failure("no_pending_task"), p, h)
           ELSE Step(t, [Request(Sends(ReadPending(tasks[t], p), 1), FirstRequest(ty))
                           EXCEPT !.pc = FirstWait(ty),
                                  !.seen = PendingView(p, h, state_file)],
                     [p EXCEPT !.event = tasks[t].event], h)

\* the except clause of lines 1356-1361, which also catches a send that
\* raises
ModifyFailed(t) ==
    Return(t, tasks[t], Failure("modify_failed"), pending_generation, heap)

\* lines 1260-1262: the modified config returns
m_config(t) ==
    /\ tasks[t].pc = "m_config"
    /\ UNCHANGED << generation_status, state_file, installed, config >>
    /\ \/ ModifyFailed(t)
       \/ \E c \in ModifiedConfigs :
            Step(t, [SendsOnly(tasks[t], 1) EXCEPT !.config_schema = normalize_config_schema(c),
                                                   !.pc = "m_update"],
                 pending_generation, heap)

\* lines 1267-1269: the modified document returns and is also stored in
\* the metadata dict the local refers to
m_docs(t) ==
    /\ tasks[t].pc = "m_docs"
    /\ UNCHANGED << generation_status, state_file, installed, config >>
    /\ \/ ModifyFailed(t)
       \/ Step(t, [SendsOnly(tasks[t], 1) EXCEPT !.markdown_doc = ModifiedDoc,
                                                 !.pc = "m_update"],
               pending_generation,
               [heap EXCEPT ![tasks[t].metadata].markdown = ModifiedDoc])

\* lines 1274-1288: the modified metadata returns
m_metadata(t) ==
    /\ tasks[t].pc = "m_metadata"
    /\ UNCHANGED << generation_status, state_file, installed, config >>
    /\ \/ ModifyFailed(t)
       \/ \E raw \in RawNames :
            LET plugin_name == NormalizeName(raw)
                r == Alloc(heap)
                h == [heap EXCEPT ![r] = MetaObj(plugin_name, "", "modified")]
                tk == [tasks[t] EXCEPT !.metadata = r, !.plugin_name = plugin_name]
            IN  IF check_plugin_exists(plugin_name)
                THEN Return(t, tk, Failure("already_exists"), pending_generation, h)
                ELSE Step(t, [SendsOnly(tk, 1) EXCEPT !.pc = "m_update"],
                          pending_generation, h)

\* lines 1309-1323: the name of the regenerated plan, the existence check,
\* the config request
NameRegenerated(t, tk, h) ==
    LET plugin_name == NormalizeName(Deref(h, tk.metadata).name)
        h1 == [h EXCEPT ![tk.metadata].name = plugin_name,
                        ![tk.metadata].markdown = tk.markdown_doc]
        tk1 == [tk EXCEPT !.plugin_name = plugin_name]
    IN  IF check_plugin_exists(plugin_name)
        THEN Return(t, tk1, Failure("already_exists"), pending_generation, h1)
        ELSE Step(t, [Request(tk1, "config") EXCEPT !.pc = "m_all_config"],
                  pending_generation, h1)

\* lines 1299-1308: the regenerated metadata returns
m_all_metadata(t) ==
    /\ tasks[t].pc = "m_all_metadata"
    /\ UNCHANGED << generation_status, state_file, installed, config >>
    /\ \/ ModifyFailed(t)
       \/ \E raw \in RawNames, md \in EmbeddedDocs(config.step_by_step, ModifiedDoc) :
            LET r == Alloc(heap)
                h == [heap EXCEPT ![r] = MetaObj(raw, md, "regenerated")]
                tk == [tasks[t] EXCEPT !.metadata = r]
            IN  IF config.step_by_step
                THEN Step(t, [Request(tk, "docs") EXCEPT !.pc = "m_all_docs"],
                          pending_generation, h)
                ELSE NameRegenerated(t, [tk EXCEPT !.markdown_doc = md], h)

\* line 1303: the regenerated document returns
m_all_docs(t) ==
    /\ tasks[t].pc = "m_all_docs"
    /\ UNCHANGED << generation_status, state_file, installed, config >>
    /\ \/ ModifyFailed(t)
       \/ NameRegenerated(t, [tasks[t] EXCEPT !.markdown_doc = ModifiedDoc], heap)

\* lines 1323-1326: the regenerated config returns
m_all_config(t) ==
    /\ tasks[t].pc = "m_all_config"
    /\ UNCHANGED << generation_status, state_file, installed, config >>
    /\ \/ ModifyFailed(t)
       \/ \E c \in GeneratedConfigs :
            Step(t, [SendsOnly(tasks[t], 1) EXCEPT !.config_schema = normalize_config_schema(c),
                                                   !.pc = "m_update"],
                 pending_generation, heap)

\* an update that loses the document
UpdatePendingResetsMarkdown(p, tk) ==
    [p EXCEPT !.metadata = tk.metadata, !.markdown = "",
              !.config_schema = tk.config_schema, !.awaiting_confirmation = TRUE]

\* lines 1334-1339: pending_generation.update({...})
UpdatePending(p, tk) ==
    [p EXCEPT !.metadata = tk.metadata, !.markdown = tk.markdown_doc,
              !.config_schema = tk.config_schema, !.awaiting_confirmation = TRUE]

\* lines 1334-1350: the "regenerated" message was sent, or the send raised;
\* the task is updated and persisted, the plan is shown
m_update(t) ==
    /\ tasks[t].pc = "m_update"
    /\ UNCHANGED << generation_status, installed, config >>
    /\ \/ /\ ModifyFailed(t)
          /\ state_file' = state_file
       \/ LET p == UpdatePending(pending_generation, tasks[t]) IN
          /\ state_file' = save_pending_state(p, heap)
          /\ Step(t, [SendsOnly(tasks[t], 2 + ImagesSent(tasks[t].markdown_doc,
                                                         tasks[t].config_schema))
                        EXCEPT !.pc = "m_return"],
                  p, heap)

\* lines 1351-1354, or a send of lines 1348-1350 raised
m_return(t) ==
    /\ tasks[t].pc = "m_return"
    /\ UNCHANGED << generation_status, state_file, installed, config >>
    /\ \/ ModifyFailed(t)
       \/ Return(t, tasks[t], Success, pending_generation, heap)

\* ---------------------------------------------------------------- restart
\* the process restarts: a new PluginGenerator is built (__init__, lines
\* 28-73, loads the persisted record); the coroutines of the old process
\* are gone, and the configuration is read again
Restart ==
    /\ generation_status' = InitialStatus
    /\ last_return' = NoReturn
    /\ LET h0 == [i \in ObjIds |-> FreeCell] IN
       Commit(PendingAfterLoad(EmptyPending, h0, state_file),
              [t \in CallIds |-> FreeTask],
              HeapAfterLoad(EmptyPending, h0, state_file))
    /\ config' = IF \E t \in CallIds : tasks[t].restore_api_pwd
                 THEN RestoredConfig(config,
                          tasks[CHOOSE t \in CallIds : tasks[t].restore_api_pwd])
                 ELSE config
    /\ UNCHANGED << state_file, installed, commands, report, call >>

\* ---------------------------------------------------------------- Next
\* a command arrives and its handler runs to its first suspension point
Calls(t) ==
    \/ \E d \in Descriptions : generate_plugin_flow(t, d)
    \/ \E fb \in BOOLEAN : approve_generation(t, fb)
    \/ reject_generation(t)
    \/ \E ty \in ModificationTypes : modify_plugin_content(t, ty)

\* a suspended coroutine is resumed
Resumes(t) ==
    \/ g_dir_invalid(t)
    \/ g_metadata(t)
    \/ g_exists(t)
    \/ g_docs(t)
    \/ g_config(t)
    \/ g_confirm(t)
    \/ g_auto(t)
    \/ g_code(t)
    \/ c_entry(t)
    \/ c_rejected(t)
    \/ c_optimize(t)
    \/ c_optimize_config(t)
    \/ c_exists(t)
    \/ c_continue(t)
    \/ c_code(t)
    \/ c_review(t)
    \/ c_fix(t)
    \/ c_review_again(t)
    \/ c_passed(t)
    \/ c_install(t)
    \/ c_installed(t)
    \/ m_entry(t)
    \/ m_config(t)
    \/ m_docs(t)
    \/ m_metadata(t)
    \/ m_all_metadata(t)
    \/ m_all_docs(t)
    \/ m_all_config(t)
    \/ m_update(t)
    \/ m_return(t)

Next ==
    \/ \E t \in CallIds : Calls(t)
    \/ \E t \in CallIds : Resumes(t)
    \/ Restart

Spec == Init /\ [][Next]_vars

\* the commands arrive one at a time: a command is handled to its end
\* before the next one is dispatched
NextSeq ==
    \/ \E t \in CallIds : InFlight = {} /\ Calls(t)
    \/ \E t \in CallIds : Resumes(t)
    \/ Restart

SpecSeq == Init /\ [][NextSeq]_vars


\* the configurations of one run of the pipeline: every retry budget up to
\* two, and every installation method with and without an API password
RunConfigs ==
    [auto_approve : BOOLEAN, step_by_step : BOOLEAN,
     install_method : {"auto", "api", "file"}, api_password_md5 : {"", "md5"},
     satisfaction_threshold : {80}, max_retries : {0, 1, 2}]

\* the state after construction, with two commands to come
InitRun ==
    /\ generation_status = InitialStatus
    /\ pending_generation = EmptyPending
    /\ heap = [i \in ObjIds |-> FreeCell]
    /\ state_file = NoFile
    /\ installed = { <<PREFIX, "clock">> }
    /\ config \in RunConfigs
    /\ tasks = [t \in CallIds |-> FreeTask]
    /\ last_return = NoReturn
    /\ commands = MaxCommands - 2
    /\ report = NoReport
    /\ call = NoCall

\* a generate command and the command that follows it, one at a time
SpecRun == InitRun /\ [][NextSeq]_vars

\* the configurations of a run with every retry budget, the unlimited one
\* (max_retries = -1, line 946) among them
LiveConfigs ==
    [auto_approve : BOOLEAN, step_by_step : BOOLEAN,
     install_method : {"auto", "file"}, api_password_md5 : {"", "md5"},
     satisfaction_threshold : {80}, max_retries : {-1, 0, 1, 2}]

InitLive ==
    /\ generation_status = InitialStatus
    /\ pending_generation = EmptyPending
    /\ heap = [i \in ObjIds |-> FreeCell]
    /\ state_file = NoFile
    /\ installed = { <<PREFIX, "clock">> }
    /\ config \in LiveConfigs
    /\ tasks = [t \in CallIds |-> FreeTask]
    /\ last_return = NoReturn
    /\ commands = MaxCommands - 2
    /\ report = NoReport
    /\ call = NoCall

\* a run in which every LLM, notification and installation call returns:
\* the event loop resumes a coroutine whose awaited call has returned
SpecLive ==
    InitLive /\ [][NextSeq]_vars /\ \A t \in CallIds : WF_vars(Resumes(t))

\* ---------------------------------------------------------------- static auditors
\* the issues one external tool (ruff, pylint, mypy) reports at most
MaxToolIssues == 1
\* the findings of the AstrBot rules in one audit at most
MaxFindings == 2

Min(a, b) == IF a <= b THEN a ELSE b
Max(a, b) == IF a >= b THEN a ELSE b

\* the sequences over S of at most n elements
SeqsUpTo(S, n) == UNION { [1..k -> S] : k \in 0..n }

\* `tok in m` for a message given as the sequence of its parts
Contains(m, tok) == \E i \in DOMAIN m : m[i] = tok

RECURSIVE SumOver(_, _)
SumOver(f, s) == IF s = <<>> THEN 0 ELSE f[Head(s)] + SumOver(f, Tail(s))

\* ---- code_audit.py, AstrbotPluginAuditor
\* line 50: the default of static_satisfaction_threshold
DefaultStaticThreshold == 85
\* static_threshold is int(config value): any integer the operator wrote
StaticThresholds == { 0, DefaultStaticThreshold, 100 }

\* issues of _run_astrbot_checks (lines 338, 341, 406)
CRITICAL == "[CRITICAL]"
AstrCheckIssues ==
    { << CRITICAL, "logging_module" >>, << "logger_import_missing" >>,
      << "sync_listener" >> }

\* an audit that decides by the score alone
ApprovedByScore(ruff, pylint, mypy, astr_issues, static_threshold) ==
    LET score == Max(0, Min(100, 100 - Min(ruff, 100) - Min(pylint, 100)
                                     - Min(mypy, 100) - 5 * Len(astr_issues)))
    IN  [approved |-> score >= static_threshold, satisfaction_score |-> score,
         reason |-> IF score < static_threshold THEN "low_score" ELSE "passed"]

\* lines 78-129: the aggregation of analyze_code, from the numbers of issues
\* of the three tool reports and the issues of the AstrBot checks
analyze_code(ruff, pylint, mypy, astr_issues, static_threshold) ==
    LET score == Max(0, Min(100, 100 - Min(ruff, 100) - Min(pylint, 100)
                                     - Min(mypy, 100) - 5 * Len(astr_issues)))
        critical == \E i \in DOMAIN astr_issues : Contains(astr_issues[i], CRITICAL)
    IN  [approved |-> ~critical /\ score >= static_threshold,
         satisfaction_score |-> score,
         reason |-> IF critical THEN "critical"
                    ELSE IF score < static_threshold THEN "low_score"
                    ELSE "passed"]

AnalyzeCode ==
    \E ruff, pylint, mypy \in 0..MaxToolIssues :
    \E astr_issues \in SeqsUpTo(AstrCheckIssues, MaxFindings) :
    \E static_threshold \in StaticThresholds :
       /\ report' = [auditor |-> "AstrbotPluginAuditor",
                     tools |-> << ruff, pylint, mypy >>,
                     astr_issues |-> astr_issues,
                     static_threshold |-> static_threshold,
                     result |-> analyze_code(ruff, pylint, mypy, astr_issues,
                                             static_threshold)]
       /\ UNCHANGED << generation_status, pending_generation, heap, state_file,
                       installed, config, tasks, last_return, commands, call >>

\* ---- code_auditor.py, AstrBotPluginAuditor
\* findings of _audit_astrbot_rules: critical (lines 239, 352) and normal
\* (line 343)
CriticalRules == { "logging_module", "requests_import" }
NormalRules == { "listener_without_event" }

\* a score that is not clamped
UnclampedScore(critical_cnt, normal_cnt, tool_issue_cnt) ==
    100 - critical_cnt * 15 - normal_cnt * 5 - Min(tool_issue_cnt * 3, 30)

\* lines 364-370
_score(critical_cnt, normal_cnt, tool_issue_cnt) ==
    Max(0, Min(100, 100 - critical_cnt * 15 - normal_cnt * 5
                        - Min(tool_issue_cnt * 3, 30)))

\* lines 399-427: the aggregation of audit, from the findings of the rules
\* and the number of issues of the available tools
audit(critical, normal, tool_issue_cnt) ==
    LET approved == Len(critical) = 0 IN
    [approved |-> approved,
     satisfaction_score |-> _score(Len(critical), Len(normal), tool_issue_cnt),
     reason |-> IF approved THEN "passed" ELSE "critical"]

Audit ==
    \E critical \in SeqsUpTo(CriticalRules, MaxFindings) :
    \E normal \in SeqsUpTo(NormalRules, MaxFindings) :
    \E tool_issue_cnt \in 0..(3 * MaxToolIssues) :
       /\ report' = [auditor |-> "AstrBotPluginAuditor",
                     critical |-> critical, normal |-> normal,
                     tool_issue_cnt |-> tool_issue_cnt,
                     result |-> audit(critical, normal, tool_issue_cnt)]
       /\ UNCHANGED << generation_status, pending_generation, heap, state_file,
                       installed, config, tasks, last_return, commands, call >>

\* ---- static_audit.py, StaticCodeAuditor
\* the issues by tool and severity: every AstrBot rule has severity error
\* (lines 270-328), a tool issue any of the three severities
Issue(tool, severity) == [tool |-> tool, severity |-> severity]
AstrbotIssues == { Issue("astrbot", "error") }
ToolIssues ==
    { Issue(tool, sev) : tool \in {"ruff", "pylint", "mypy"},
                         sev \in {"info", "warning", "error"} }

\* lines 345-353: the weight of one issue
Delta(item) ==
    IF item.tool = "mypy" THEN (IF item.severity = "error" THEN 12 ELSE 6)
    ELSE IF item.tool = "pylint" THEN (IF item.severity = "error" THEN 10 ELSE 5)
    ELSE IF item.tool = "ruff" THEN (IF item.severity = "error" THEN 6 ELSE 3)
    ELSE (IF item.severity = "error" THEN 15 ELSE 8)

\* lines 342-378: the aggregation of analyze over the collected issues
analyze(all_issues) ==
    LET score == Max(0, Min(100, 100 - SumOver([i \in AstrbotIssues \cup ToolIssues
                                                   |-> Delta(i)], all_issues)))
        approved ==
            /\ score >= 80
            /\ ~ \E k \in DOMAIN all_issues :
                    /\ all_issues[k].severity = "error"
                    /\ all_issues[k].tool = "astrbot"
    IN  [approved |-> approved, satisfaction_score |-> score,
         reason |-> IF approved THEN "passed" ELSE "failed"]

\* lines 338-340: the issues of ruff, then of pylint, then of mypy
ToolRank == [ruff |-> 1, pylint |-> 2, mypy |-> 3]
InToolOrder(s) ==
    \A i, j \in DOMAIN s : i < j => ToolRank[s[i].tool] <= ToolRank[s[j].tool]

\* lines 334-340: the AstrBot issues come first, then those of the tools
Analyze ==
    \E astr \in SeqsUpTo(AstrbotIssues, MaxFindings) :
    \E tool \in { s \in SeqsUpTo(ToolIssues, 2 * MaxToolIssues) : InToolOrder(s) } :
       /\ report' = [auditor |-> "StaticCodeAuditor",
                     all_issues |-> astr \o tool,
                     result |-> analyze(astr \o tool)]
       /\ UNCHANGED << generation_status, pending_generation, heap, state_file,
                       installed, config, tasks, last_return, commands, call >>

\* an audit of a generated code by one of the three auditors
NextAudit ==
    \/ AnalyzeCode
    \/ Audit
    \/ Analyze

\* the plugin as constructed, and the auditors applied to codes of all kinds
SpecAudit == Init /\ [][NextAudit]_vars

\* ---------------------------------------------------------------- scores
\* the critical findings of one audit at most, where scores are followed
\* down to zero
MaxCritical == 7
\* line 95 of code_audit.py: the issues of one tool count up to this number
ToolIssueCap == 100

\* the audit reports as the three aggregators build them
AnalyzeCodeReport(tools, astr_issues, static_threshold) ==
    [auditor |-> "AstrbotPluginAuditor", tools |-> tools,
     astr_issues |-> astr_issues, static_threshold |-> static_threshold,
     result |-> analyze_code(tools[1], tools[2], tools[3], astr_issues,
                             static_threshold)]
AuditReport(critical, normal, tool_issue_cnt) ==
    [auditor |-> "AstrBotPluginAuditor", critical |-> critical,
     normal |-> normal, tool_issue_cnt |-> tool_issue_cnt,
     result |-> audit(critical, normal, tool_issue_cnt)]
AnalyzeReport(all_issues) ==
    [auditor |-> "StaticCodeAuditor", all_issues |-> all_issues,
     result |-> analyze(all_issues)]

\* the reports on a code without any finding
CleanReports ==
    { AnalyzeCodeReport(<< 0, 0, 0 >>, <<>>, t) : t \in StaticThresholds }
    \cup { AuditReport(<<>>, <<>>, 0), AnalyzeReport(<<>>) }

\* the pipeline's variables, which no auditor touches
PipelineIdle ==
    UNCHANGED << generation_status, pending_generation, heap, state_file,
                 installed, config, tasks, last_return, commands, call >>

\* s with x put in at position k
InsertAt(s, k, x) == SubSeq(s, 1, k - 1) \o << x >> \o SubSeq(s, k, Len(s))

\* analyze_code on a code for which one tool reports one more issue; one
\* tool is followed beyond the cap, the others up to MaxToolIssues
AnalyzeCodeToolIssue ==
    /\ report.auditor = "AstrbotPluginAuditor"
    /\ \E i \in 1..3 :
          /\ report.tools[i] <= ToolIssueCap
          /\ \/ report.tools[i] < MaxToolIssues
             \/ \A j \in 1..3 \ {i} : report.tools[j] <= MaxToolIssues
          /\ report' = AnalyzeCodeReport([report.tools EXCEPT ![i] = @ + 1],
                                         report.astr_issues,
                                         report.static_threshold)
    /\ PipelineIdle

\* analyze_code on a code for which the AstrBot checks report one more issue
AnalyzeCodeAstrIssue ==
    /\ report.auditor = "AstrbotPluginAuditor"
    /\ Len(report.astr_issues) < MaxFindings
    /\ \E x \in AstrCheckIssues :
          report' = AnalyzeCodeReport(report.tools, Append(report.astr_issues, x),
                                      report.static_threshold)
    /\ PipelineIdle

\* audit on a code with one more critical finding, normal finding or tool issue
AuditMore ==
    /\ report.auditor = "AstrBotPluginAuditor"
    /\ \/ /\ Len(report.critical) < MaxCritical
          /\ \E x \in CriticalRules :
                report' = AuditReport(Append(report.critical, x), report.normal,
                                      report.tool_issue_cnt)
       \/ /\ Len(report.normal) < MaxFindings
          /\ \E x \in NormalRules :
                report' = AuditReport(report.critical, Append(report.normal, x),
                                      report.tool_issue_cnt)
       \/ /\ report.tool_issue_cnt <= 10
          /\ report' = AuditReport(report.critical, report.normal,
                                   report.tool_issue_cnt + 1)
    /\ PipelineIdle

\* analyze on a code with one more issue, of the AstrBot rules or of a tool
AnalyzeMore ==
    /\ report.auditor = "StaticCodeAuditor"
    /\ \E x \in AstrbotIssues \cup ToolIssues :
       \E k \in 1..(Len(report.all_issues) + 1) :
          LET s == InsertAt(report.all_issues, k, x)
              astr == SelectSeq(s, LAMBDA i : i \in AstrbotIssues)
              tool == SelectSeq(s, LAMBDA i : i \in ToolIssues)
          IN  /\ s = astr \o tool
              /\ Len(astr) <= MaxCritical
              /\ Len(tool) <= 2 * MaxToolIssues
              /\ InToolOrder(tool)
              /\ report' = AnalyzeReport(s)
    /\ PipelineIdle

NextScore ==
    \/ AnalyzeCodeToolIssue
    \/ AnalyzeCodeAstrIssue
    \/ AuditMore
    \/ AnalyzeMore

\* the plugin as constructed with the flow of the default configuration,
\* and an audit of a code without findings
InitScore ==
    /\ generation_status = InitialStatus
    /\ pending_generation = EmptyPending
    /\ heap = [i \in ObjIds |-> FreeCell]
    /\ state_file = NoFile
    /\ installed = { <<PREFIX, "clock">> }
    /\ config \in { c \in Configs : ~c.auto_approve /\ ~c.step_by_step
                                     /\ c.api_password_md5 = "" }
    /\ tasks = [t \in CallIds |-> FreeTask]
    /\ last_return = NoReturn
    /\ commands = 0
    /\ report \in CleanReports
    /\ call = NoCall

\* audits of codes that differ by one finding
SpecScore == InitScore /\ [][NextScore]_vars

\* ---------------------------------------------------------------- rule engines
\* the parameters a hook method declares at most
MaxParams == 4

\* how a source imports a module m: not at all, `import m`,
\* `from m import x`, or `import os, m`
ImportForms == { "none", "import", "from", "list" }

\* the four hooks in which yield is forbidden, and the two with a third
\* parameter
HookKinds == { "on_llm_request", "on_llm_response", "on_decorating_result",
               "after_message_sent" }
LlmHooks == { "on_llm_request", "on_llm_response" }

\* the decorators of a method: the hooks and `@filter.command("x")`
Decorators == HookKinds \cup { "command" }

\* a method `@filter.<kind>()` of the plugin class, named otherwise than its
\* hook: declared with def or async def, with `params` positional
\* parameters, and with or without `yield event.plain_result(...)` in its body
NoHook == [kind |-> "none", is_async |-> TRUE, params |-> MaxParams, yields |-> FALSE]
Hooks ==
    [kind : Decorators, is_async : BOOLEAN, params : 1..MaxParams, yields : BOOLEAN]

\* a generated main.py by what the rules look at: whether it parses, how it
\* imports logging and requests, whether it has the lines
\* `from astrbot.api import logger`, `from astrbot.api.event import filter`
\* and `class MyPlugin(Star):`, and its hook method if it has one.  A source
\* that does not parse holds the same lines and a syntax error elsewhere.
Sources ==
    [parses : BOOLEAN, logging : ImportForms, requests : ImportForms,
     logger : BOOLEAN, filter : BOOLEAN, star : BOOLEAN,
     hook : Hooks \cup { NoHook }]

HasHook(s) == s.hook.kind # "none"

\* the list of x if c holds, the empty list otherwise
When(c, x) == IF c THEN << x >> ELSE <<>>

\* rules that do not ask for a class derived from Star
StarClassOptional(s) ==
    IF ~s.parses
    THEN [critical |-> << "syntax_error" >>, normal |-> <<>>]
    ELSE [critical |->
               When(~s.logger, "logger_import_missing")
            \o When(s.logging # "none", "logging_module")
            \o When(s.requests \in {"import", "from"}, "requests_import"),
          normal |-> <<>>]

\* ---- code_auditor.py, lines 205-362: the rules walk ast.FunctionDef nodes
\* only, which an `async def` is not
_audit_astrbot_rules(s) ==
    LET sync_hook == HasHook(s) /\ ~s.hook.is_async IN
    IF ~s.parses
    THEN [critical |-> << "syntax_error" >>, normal |-> <<>>]
    ELSE [critical |->
               When(~s.logger, "logger_import_missing")
            \o When(s.logging # "none", "logging_module")
            \o When(sync_hook /\ ~s.filter, "filter_import_missing")
            \o When(~s.star, "no_star_class")
            \o When(sync_hook /\ s.hook.kind \in LlmHooks /\ s.hook.params < 3,
                    "hook_arity")
            \o When(sync_hook /\ s.hook.kind \in HookKinds /\ s.hook.yields,
                    "hook_yield")
            \o When(s.requests \in {"import", "from"}, "requests_import"),
          normal |-> When(sync_hook /\ s.hook.params < 2, "listener_without_event")]

\* ---- auditor.py, lines 267-415: the hooks are looked for among the
\* ast.AsyncFunctionDef nodes only; `from logging import x` is not looked for
_run_ast_checks(s) ==
    LET async_hook == s.hook.kind \in HookKinds /\ s.hook.is_async IN
    IF ~s.parses
    THEN << "syntax_error" >>
    ELSE    When(s.logging \in {"import", "list"}, "logging_module")
         \o When(s.requests # "none", "requests_import")
         \o When(~s.filter, "filter_import_missing")
         \o When(~s.logger, "logger_import_missing")
         \o When(~s.star, "no_star_class")
         \o When(async_hook /\ s.hook.kind \in LlmHooks /\ s.hook.params < 3,
                 "hook_arity")
         \o When(async_hook /\ s.hook.kind \notin LlmHooks /\ s.hook.params < 2,
                 "hook_without_event")
         \o When(async_hook /\ s.hook.yields, "hook_yield")

\* lines 54-113 with the default profile: the code passes without any issue
audit_code(ast_issues, tool_issue_cnt) ==
    [passed |-> Len(ast_issues) + tool_issue_cnt = 0]

\* ---- code_audit.py, lines 327-418: regular expressions over the text,
\* which is never parsed
_run_astrbot_checks(s) ==
    LET async_hook == HasHook(s) /\ s.hook.is_async IN
       When(s.logging = "import", << CRITICAL, "logging_module" >>)
    \o When(~s.logger, << "logger_import_missing" >>)
    \o When(~s.star, << CRITICAL, "no_star_class" >>)
    \o When(~s.filter /\ HasHook(s), << CRITICAL, "filter_import_missing" >>)
    \o When(async_hook /\ s.hook.kind \in LlmHooks /\ s.hook.params < 3,
            << CRITICAL, "hook_arity" >>)
    \o When(async_hook /\ s.hook.kind \in HookKinds /\ s.hook.yields,
            << CRITICAL, "hook_yield" >>)
    \o When(HasHook(s) /\ ~s.hook.is_async, << "sync_listener" >>)
    \o When(async_hook /\ s.hook.kind = "command" /\ s.hook.params < 2,
            << "listener_without_event" >>)

\* a generated code that no auditor has looked at yet
Unaudited(s) == [auditor |-> "", source |-> s]

\* AstrBotPluginAuditor.audit of code_auditor.py on the source
AuditSource ==
    /\ \E tool_issue_cnt \in 0..MaxToolIssues :
          LET found == _audit_astrbot_rules(report.source) IN
          report' = [auditor |-> "AstrBotPluginAuditor", source |-> report.source,
                     critical |-> found.critical, normal |-> found.normal,
                     tool_issue_cnt |-> tool_issue_cnt,
                     result |-> audit(found.critical, found.normal, tool_issue_cnt)]
    /\ PipelineIdle

\* AstrPluginAuditor.audit_code of auditor.py on the source
AuditCodeSource ==
    /\ \E tool_issue_cnt \in 0..MaxToolIssues :
          LET ast_issues == _run_ast_checks(report.source) IN
          report' = [auditor |-> "AstrPluginAuditor", source |-> report.source,
                     ast_issues |-> ast_issues, tool_issue_cnt |-> tool_issue_cnt,
                     result |-> audit_code(ast_issues, tool_issue_cnt)]
    /\ PipelineIdle

\* AstrbotPluginAuditor.analyze_code of code_audit.py on the source
AnalyzeCodeSource ==
    /\ \E ruff \in 0..MaxToolIssues, static_threshold \in StaticThresholds :
          LET astr_issues == _run_astrbot_checks(report.source) IN
          report' = [auditor |-> "AstrbotPluginAuditor", source |-> report.source,
                     tools |-> << ruff, 0, 0 >>, astr_issues |-> astr_issues,
                     static_threshold |-> static_threshold,
                     result |-> analyze_code(ruff, 0, 0, astr_issues,
                                             static_threshold)]
    /\ PipelineIdle


\* ---------------------------------------------------------------- tool runners
Tools == << "ruff", "pylint", "mypy" >>

\* what one external tool does on the host: it is not installed, it exceeds
\* its timeout, or it runs and reports `found` issues
ToolEnvs == [status : {"ran", "absent", "timeout"}, found : 0..MaxToolIssues]

\* the issues a tool reports when it runs, told apart by their position
FoundIssues(tool, e) == [k \in 1..e.found |-> << tool, "issue", k >>]

\* a runner that reports a missing executable as a finding
MissingIsFinding(tool, e) ==
    IF e.status = "ran"
    THEN [name |-> tool, available |-> TRUE, issues |-> FoundIssues(tool, e)]
    ELSE [name |-> tool, available |-> TRUE, issues |-> << << tool, e.status, 0 >> >>]

\* ---- code_audit.py, lines 201-241 (_run_pylint 243-286 and _run_mypy
\* 288-325 alike): no executable, a timeout, or the parsed issues
_run_ruff(tool, e) ==
    IF e.status = "absent"
    THEN [name |-> tool, available |-> FALSE, issues |-> <<>>]
    ELSE IF e.status = "timeout"
    THEN [name |-> tool, available |-> TRUE, issues |-> << << tool, "timeout", 0 >> >>]
    ELSE [name |-> tool, available |-> TRUE, issues |-> FoundIssues(tool, e)]

\* lines 136-145
RECURSIVE _dedup_list(_)
_dedup_list(items) ==
    IF items = <<>> THEN <<>>
    ELSE LET front == _dedup_list(SubSeq(items, 1, Len(items) - 1))
             it == items[Len(items)]
         IN  IF \E k \in DOMAIN front : front[k] = it THEN front
             ELSE Append(front, it)

\* lines 66-129: analyze_code on a host, for a code with these rule issues
AnalyzeOnHost(env, astr_issues, static_threshold) ==
    LET details == [i \in 1..3 |-> _run_ruff(Tools[i], env[i])] IN
    [auditor |-> "AstrbotPluginAuditor", env |-> env, astr_issues |-> astr_issues,
     static_threshold |-> static_threshold, details |-> details,
     issues |-> _dedup_list(details[1].issues \o details[2].issues
                            \o details[3].issues
                            \o [k \in DOMAIN astr_issues |->
                                   << "astrbot", "rule", astr_issues[k] >>]),
     result |-> analyze_code(Len(details[1].issues), Len(details[2].issues),
                             Len(details[3].issues), astr_issues,
                             static_threshold)]

\* ---- astrbot_code_auditor.py
\* the ratings of pylint, in tenths; line 166: below 7.0 pylint fails
PylintRatings == { 69, 70, 100 }

\* lines 62-113, 115-174, 176-221: (passed, issues, rating) of a tool; a tool
\* that is not installed passes without issues, ruff passes without issues,
\* pylint by its rating, mypy without error lines
RunChecked(tool, e, rated) ==
    IF e.status = "absent"
    THEN [passed |-> TRUE, issues |-> <<>>, score |-> 100]
    ELSE IF e.status = "timeout"
    THEN [passed |-> FALSE, issues |-> << << tool, "timeout", 0 >> >>, score |-> 0]
    ELSE [passed |-> IF tool = "pylint" THEN rated >= 70 ELSE e.found = 0,
          issues |-> FoundIssues(tool, e),
          score |-> IF tool = "pylint" THEN rated ELSE 100]

\* lines 327-377: the aggregation of audit_code
AuditCodeResult(ruff, pylint, mypy, astrbot_issues) ==
    LET astrbot_passed == Len(astrbot_issues) = 0
        satisfaction_score ==
            pylint.score - (IF ruff.passed THEN 0 ELSE 20)
                         - (IF mypy.passed THEN 0 ELSE 20)
                         - (IF astrbot_passed THEN 0 ELSE 15)
    IN  [approved |-> ruff.passed /\ pylint.passed /\ mypy.passed /\ astrbot_passed,
         satisfaction_score |-> Max(0, Min(100, satisfaction_score)),
         astrbot_rules_passed |-> astrbot_passed,
         issues |-> ruff.issues \o pylint.issues \o mypy.issues
                    \o [k \in DOMAIN astrbot_issues |->
                           << "astrbot", "rule", astrbot_issues[k] >>]]

AuditCodeOnHost(env, rated, astrbot_issues) ==
    [auditor |-> "AstrBotCodeAuditor", env |-> env, rated |-> rated,
     astrbot_issues |-> astrbot_issues,
     result |-> AuditCodeResult(RunChecked("ruff", env[1], rated),
                                RunChecked("pylint", env[2], rated),
                                RunChecked("mypy", env[3], rated),
                                astrbot_issues)]

\* ---- quality_checker.py
\* a runner whose timeout leaves no finding
TimeoutIsSilent(tool, e) ==
    [tool |-> tool,
     status |-> IF e.status = "absent" THEN "skipped"
                ELSE IF e.status = "ran" /\ e.found > 0 THEN "failed" ELSE "passed",
     timeout |-> e.status = "timeout"]

\* lines 323-412: the tools are modules of the running interpreter; a
\* module that is not installed is found out by its output
_run_tool(tool, e) ==
    [tool |-> tool,
     status |-> IF e.status = "timeout" THEN "failed"
                ELSE IF e.status = "absent" THEN "skipped"
                ELSE IF e.found = 0 THEN "passed" ELSE "failed",
     timeout |-> e.status = "timeout"]

\* lines 438-480
_summarise_results(results) ==
    LET failed == SelectSeq(results, LAMBDA r : r.status = "failed")
        skipped == SelectSeq(results, LAMBDA r : r.status = "skipped")
    IN  [success |-> failed = <<>>,
         issues |-> [k \in DOMAIN failed |->
                        << failed[k].tool,
                           IF failed[k].timeout THEN "timeout" ELSE "failed", 0 >>],
         skipped_tools |-> [k \in DOMAIN skipped |-> skipped[k].tool]]

\* lines 163-243 with the default settings
RunChecksOnHost(env) ==
    [auditor |-> "QualityChecker", env |-> env,
     result |-> _summarise_results([i \in 1..3 |-> _run_tool(Tools[i], env[i])])]

\* the same audit on a host where tool i behaves as e
OnHost(r, env) ==
    IF r.auditor = "AstrbotPluginAuditor"
    THEN AnalyzeOnHost(env, r.astr_issues, r.static_threshold)
    ELSE IF r.auditor = "AstrBotCodeAuditor"
    THEN AuditCodeOnHost(env, r.rated, r.astrbot_issues)
    ELSE RunChecksOnHost(env)

\* the audits on a host with the three tools installed and in time
HostReports ==
    LET envs == [1..3 -> { e \in ToolEnvs : e.status = "ran" }] IN
    { AnalyzeOnHost(env, a, t) :
        env \in envs, a \in SeqsUpTo(AstrCheckIssues, MaxFindings),
        t \in StaticThresholds }
    \cup { AuditCodeOnHost(env, rated, a) :
             env \in envs, rated \in PylintRatings,
             a \in SeqsUpTo({"logging_module"}, 1) }
    \cup { RunChecksOnHost(env) : env \in envs }

\* the audit is made again on a host without tool i
ToolAbsent ==
    /\ \E i \in 1..3 :
          /\ report.env[i].status = "ran"
          /\ report' = OnHost(report, [report.env EXCEPT ![i].status = "absent"])
    /\ PipelineIdle

\* the audit is made again and tool i exceeds its timeout
ToolTimeout ==
    /\ \E i \in 1..3 :
          /\ report.env[i].status = "ran"
          /\ report' = OnHost(report, [report.env EXCEPT ![i].status = "timeout"])
    /\ PipelineIdle

NextTools ==
    \/ ToolAbsent
    \/ ToolTimeout

InitTools ==
    /\ generation_status = InitialStatus
    /\ pending_generation = EmptyPending
    /\ heap = [i \in ObjIds |-> FreeCell]
    /\ state_file = NoFile
    /\ installed = { <<PREFIX, "clock">> }
    /\ config \in { c \in Configs : ~c.auto_approve /\ ~c.step_by_step
                                     /\ c.api_password_md5 = "" }
    /\ tasks = [t \in CallIds |-> FreeTask]
    /\ last_return = NoReturn
    /\ commands = 0
    /\ report \in HostReports
    /\ call = NoCall

\* audits of one code on hosts that differ by one tool
SpecTools == InitTools /\ [][NextTools]_vars
\* rules that ask three parameters of every decorated method
ThreeParamsEverywhere(s) ==
       When(s.logging \in {"import", "from"}, "logging_module")
    \o When(s.requests \in {"import", "from"}, "requests_import")
    \o When(HasHook(s) /\ ~s.filter, "filter_import_missing")
    \o When(~s.star, "no_star_class")
    \o When(HasHook(s) /\ s.hook.is_async /\ s.hook.params # 3, "hook_arity")

\* ---- astrbot_code_auditor.py, lines 223-310: regular expressions over the
\* text; a decorator is followed to the next `async def` only, a hook has
\* to declare three parameters exactly, and yield is looked for in the
\* functions that bear the name of a hook, which the method here does not
_check_astrbot_specific_rules(s) ==
    LET async_hook == HasHook(s) /\ s.hook.is_async IN
       When(s.logging \in {"import", "from"}, "logging_module")
    \o When(s.requests \in {"import", "from"}, "requests_import")
    \o When(HasHook(s) /\ ~s.filter, "filter_import_missing")
    \o When(~s.star, "no_star_class")
    \o When(async_hook /\ s.hook.kind \in LlmHooks /\ s.hook.params # 3,
            "hook_arity")
    \o When(async_hook /\ s.hook.kind \notin LlmHooks /\ s.hook.params < 2,
            "hook_without_event")

\* what the three tools do alike on a host: they pass, they fail, or they
\* are not installed
ToolOutcomes ==
    { [e |-> [status |-> "ran", found |-> 0], rated |-> 100],
      [e |-> [status |-> "ran", found |-> 1], rated |-> 69],
      [e |-> [status |-> "absent", found |-> 0], rated |-> 100] }

\* AstrBotCodeAuditor.audit_code of astrbot_code_auditor.py on the source
AuditCodeRules ==
    /\ \E o \in ToolOutcomes :
          LET r == AuditCodeOnHost(<< o.e, o.e, o.e >>, o.rated,
                                   _check_astrbot_specific_rules(report.source))
          IN  report' = [f \in DOMAIN r \cup {"source"} |->
                           IF f = "source" THEN report.source ELSE r[f]]
    /\ PipelineIdle

NextRules ==
    \/ AuditSource
    \/ AuditCodeSource
    \/ AnalyzeCodeSource
    \/ AuditCodeRules

\* the plugin as constructed and a generated code to audit
InitRules ==
    /\ generation_status = InitialStatus
    /\ pending_generation = EmptyPending
    /\ heap = [i \in ObjIds |-> FreeCell]
    /\ state_file = NoFile
    /\ installed = { <<PREFIX, "clock">> }
    /\ config \in { c \in Configs : ~c.auto_approve /\ ~c.step_by_step
                                     /\ c.api_password_md5 = "" }
    /\ tasks = [t \in CallIds |-> FreeTask]
    /\ last_return = NoReturn
    /\ commands = 0
    /\ report \in { Unaudited(s) : s \in Sources }
    /\ call = NoCall

\* the auditors applied to one generated code
SpecRules == InitRules /\ [][NextRules]_vars
\* ---------------------------------------------------------------- repair request
\* the largest max_retries a repair is called with; the default is 3
MaxRepairTries == 5
DefaultRepairTries == 3

\* what one LLM call of a repair gives: a response with a code block, a
\* response without one, or an exception
LLMResponses == { "block", "prose", "raise" }

\* the code of the first block of a response, as extract_code_blocks gives it
FixedCode == "fixed"

\* the other variables while a helper is called on its own
HelperIdle ==
    UNCHANGED << generation_status, pending_generation, heap, state_file,
                 installed, config, tasks, last_return, commands, report >>

\* llm_handler.py, lines 528-576 before the loop: the call with its prompt;
\* line 576: without a single iteration the loop is over at once
BeginFix(max_retries) ==
    [fn |-> "fix_plugin_code", max_retries |-> max_retries, attempt |-> 0,
     responses |-> <<>>, instructions |-> 0,
     outcome |-> IF max_retries = 0 THEN "no_code_error" ELSE "running",
     returned |-> ""]

\* a repair that returns the code it was given when no block is found
ReturnsGivenCode(c, resp) ==
    LET seen == [c EXCEPT !.responses = Append(@, resp), !.attempt = @ + 1] IN
    IF resp = "block"
    THEN [seen EXCEPT !.outcome = "returned", !.returned = FixedCode]
    ELSE IF c.attempt = c.max_retries - 1
    THEN [seen EXCEPT !.outcome = "returned", !.returned = "given"]
    ELSE seen

\* lines 556-574: one iteration of the loop of fix_plugin_code, and lines
\* 576-578 after the last one
fix_plugin_code(c, resp) ==
    LET last == c.attempt = c.max_retries - 1
        seen == [c EXCEPT !.responses = Append(@, resp), !.attempt = @ + 1]
    IN  IF resp = "block"
        THEN [seen EXCEPT !.outcome = "returned", !.returned = FixedCode]
        ELSE IF resp = "raise"
        THEN IF last THEN [seen EXCEPT !.outcome = "llm_error"] ELSE seen
        ELSE IF last THEN [seen EXCEPT !.outcome = "no_code_error"]
        ELSE [seen EXCEPT !.instructions = @ + 1]

\* fix_plugin_code is called
FixCall ==
    /\ call = NoCall \/ (call.fn = "fix_plugin_code" /\ call.outcome # "running")
    /\ \E max_retries \in 0..MaxRepairTries : call' = BeginFix(max_retries)
    /\ HelperIdle

\* the LLM call of one attempt returns or raises
FixAttempt ==
    /\ call.fn = "fix_plugin_code"
    /\ call.outcome = "running"
    /\ \E resp \in LLMResponses : call' = fix_plugin_code(call, resp)
    /\ HelperIdle

NextFix ==
    \/ FixCall
    \/ FixAttempt

\* repair requests, one after the other
SpecFix == Init /\ [][NextFix]_vars

\* ---------------------------------------------------------------- review payload
\* a value of a review payload by its Python type: None, a bool (n is 0 or
\* 1), a number (n in tenths), float infinity, a string, a list of n
\* strings, a dict
Value(t, n, s) == [t |-> t, n |-> n, s |-> s]
Missing == Value("none", 0, "")

\* the values a payload holds under "approved"
ApprovedValues ==
    { Missing, Value("bool", 1, ""), Value("bool", 0, ""),
      Value("str", 0, " Yes "), Value("str", 0, "no") }

\* under "satisfaction_score": no entry, -5, -0.5, 0, 85.7, 100, 150,
\* infinity, and the strings "abc" and "85"
ScoreValues ==
    { Missing, Value("num", -50, ""), Value("num", -5, ""), Value("num", 0, ""),
      Value("num", 857, ""), Value("num", 1000, ""), Value("num", 1500, ""),
      Value("inf", 0, ""), Value("str", 0, "abc"), Value("str", 0, "85") }

\* under "score", read when "satisfaction_score" has no value
OtherScoreValues == { Missing, Value("num", 900, ""), Value("num", 0, "") }

\* under "issues" and under "suggestions"
ListValues ==
    { Missing, Value("list", 0, ""), Value("list", 1, "item"),
      Value("str", 0, "item"), Value("dict", 0, "{}") }

\* the payloads review_plugin_code hands over: dicts, and one that is no dict
ReviewPayloads ==
    [dict : { TRUE }, approved : ApprovedValues, agree : { Missing, Value("bool", 1, "") },
     satisfaction_score : ScoreValues, score : OtherScoreValues,
     reason : { "", "why" }, issues : ListValues,
     suggestions : { Missing, Value("list", 1, "item") }]
    \cup
    [dict : { FALSE }, approved : { Missing }, agree : { Missing },
     satisfaction_score : { Missing }, score : { Missing }, reason : { "text" },
     issues : { Missing }, suggestions : { Missing }]

\* Python's truth value of a payload value
Truthy(v) ==
    CASE v.t = "none" -> FALSE
      [] v.t \in { "bool", "num", "list" } -> v.n # 0
      [] v.t = "str" -> v.s # ""
      [] OTHER -> TRUE

\* a or b
Or(a, b) == IF Truthy(a) THEN a ELSE b

\* str.strip().lower() of the strings above
StripLower(s) == IF s = " Yes " THEN "yes" ELSE s

\* lines 287-291
NormalizedApproved(p) ==
    LET approved == IF p.approved.t = "none" THEN Or(Missing, p.agree)
                                             ELSE p.approved
    IN  IF approved.t = "str"
        THEN StripLower(approved.s) \in { "true", "yes", "approved" }
        ELSE Truthy(approved)

\* int(float(v)): a number is cut towards zero, a numeric string is
\* parsed, infinity raises OverflowError, anything else TypeError or
\* ValueError
Truncated(k) == IF k >= 0 THEN k \div 10 ELSE -((-k) \div 10)
IntOfFloat(v) ==
    CASE v.t = "num" -> [error |-> "", int |-> Truncated(v.n)]
      [] v.t = "bool" -> [error |-> "", int |-> v.n]
      [] v.t = "str" /\ v.s = "85" -> [error |-> "", int |-> 85]
      [] v.t = "str" /\ v.s # "85" -> [error |-> "ValueError", int |-> 0]
      [] v.t = "inf" -> [error |-> "OverflowError", int |-> 0]
      [] OTHER -> [error |-> "TypeError", int |-> 0]

\* a normalisation that cuts the score to 0..100
ClampedSatisfaction(p) ==
    LET satisfaction == IF p.satisfaction_score.t = "none"
                        THEN Or(Missing, p.score) ELSE p.satisfaction_score
        i == IntOfFloat(satisfaction)
    IN  IF i.error # "" THEN [i EXCEPT !.error = "", !.int = 0]
        ELSE IF i.int < 0 THEN [i EXCEPT !.int = 0]
        ELSE IF i.int > 100 THEN [i EXCEPT !.int = 100]
        ELSE i

\* lines 292-300: only TypeError and ValueError are caught
NormalizedSatisfaction(p) ==
    LET satisfaction == IF p.satisfaction_score.t = "none"
                        THEN Or(Missing, p.score) ELSE p.satisfaction_score
        i == IntOfFloat(satisfaction)
    IN  IF i.error \in { "TypeError", "ValueError" }
        THEN [i EXCEPT !.error = "", !.int = 0]
        ELSE i

\* lines 303-309 and 311-317: the list under a key, reason standing in for
\* an empty one
NormalizedList(v, reason, prefix) ==
    LET given == Or(v, Value("list", 0, ""))
        items == CASE given.t = "str" -> << given.s >>
                   [] given.t = "list" -> [k \in 1..given.n |-> given.s]
                   [] OTHER -> << given.s >>
    IN  IF items = <<>> /\ reason # "" THEN << prefix \o reason >> ELSE items

\* lines 280-319
_normalize_review_result(p) ==
    LET reason == IF p.dict THEN p.reason ELSE "text"
        q == IF p.dict THEN p
             ELSE [p EXCEPT !.reason = "text"]
        s == NormalizedSatisfaction(q)
    IN  [raised |-> s.error,
         approved |-> NormalizedApproved(q),
         satisfaction_score |-> s.int,
         reason |-> reason,
         issues |-> NormalizedList(q.issues, reason, ""),
         suggestions |-> NormalizedList(q.suggestions, reason, "fix: ")]

\* lines 333-335 and 359-360: a review payload is normalised and set
\* against the threshold
NormalizeCall ==
    /\ call = NoCall
    /\ \E p \in ReviewPayloads :
          LET n == _normalize_review_result(p) IN
          call' = [fn |-> "_normalize_review_result", result |-> p,
                   review_result |-> n,
                   passed |-> n.raised = "" /\ ReviewPassed(n, config)]
    /\ HelperIdle

\* one review payload is normalised
SpecReview == Init /\ [][NormalizeCall]_vars
\* ---------------------------------------------------------------- the tasks of analyze_code
\* code_audit.py, lines 67-72: the four tasks analyze_code creates
Jobs == Tools \o << "astrbot_checks" >>
JobIds == DOMAIN Jobs

\* code_audit.py, lines 57-72: the private directory is made, the code and
\* the tool configurations are written, the four tasks are created, and
\* the coroutine awaits their gathering
FanOut ==
    /\ call = NoCall
    /\ call' = [fn |-> "analyze_code", temp_dir |-> "exists",
                job |-> [k \in JobIds |-> "created"],
                outcome |-> "gathering", used |-> {}, unfinished |-> {}]
    /\ HelperIdle

\* lines 201-212 (243-258, 288-303): the first step of a tool task; without
\* the executable it returns its report, create_subprocess_exec starts the
\* tool in the directory or raises (only FileNotFoundError is caught);
\* lines 327-400: the rule checks await nothing and return
JobStarts(k) ==
    /\ call.fn = "analyze_code"
    /\ call.job[k] = "created"
    /\ \E now \in IF Jobs[k] = "astrbot_checks" THEN { "returned" }
                  ELSE { "returned", "spawned", "raised" } :
          call' = [call EXCEPT !.job[k] = now]
    /\ HelperIdle

\* lines 213-239: the tool ends or is killed at its timeout, and the task
\* returns its report
JobEnds(k) ==
    /\ call.fn = "analyze_code"
    /\ call.job[k] = "spawned"
    /\ call' = [call EXCEPT !.job[k] = "returned"]
    /\ HelperIdle

\* lines 74-76 and 130-134: asyncio.gather hands over the results when all
\* four tasks have returned, or the first exception as soon as one has
\* raised, the other tasks going on; the first step of every task is queued
\* before the wake-up. Then lines 78-129 aggregate and return, and the
\* finally block removes the directory
GatherWakes ==
    /\ call.fn = "analyze_code"
    /\ call.outcome = "gathering"
    /\ \A k \in JobIds : call.job[k] # "created"
    /\ LET raised == \E k \in JobIds : call.job[k] = "raised" IN
       /\ raised \/ \A k \in JobIds : call.job[k] = "returned"
       /\ call' = [call EXCEPT
                     !.outcome = IF raised THEN "raised" ELSE "returned",
                     !.used = IF raised THEN {} ELSE JobIds,
                     !.temp_dir = "removed",
                     !.unfinished = { k \in JobIds : call.job[k] = "spawned" }]
    /\ HelperIdle

NextFan ==
    \/ FanOut
    \/ \E k \in JobIds : JobStarts(k)
    \/ \E k \in JobIds : JobEnds(k)
    \/ GatherWakes

\* one call of analyze_code with its four tasks
SpecFan == Init /\ [][NextFan]_vars
\* ---------------------------------------------------------------- admin gate
\* what the permission check reads of the event of a command: is_admin (no
\* such attribute, true, false, or raising), role, and whether the sender
\* id is in one of the admin lists of the AstrBot configuration
Senders ==
    { [is_admin |-> "true", role |-> "", listed |-> FALSE],
      [is_admin |-> "false", role |-> "Admin", listed |-> FALSE],
      [is_admin |-> "none", role |-> "member", listed |-> TRUE],
      [is_admin |-> "raises", role |-> "admin", listed |-> FALSE],
      [is_admin |-> "false", role |-> "member", listed |-> FALSE],
      [is_admin |-> "none", role |-> "", listed |-> FALSE] }

\* str.lower() of the roles above
Lower(s) == IF s = "Admin" THEN "admin" ELSE s

\* a check that lets every sender pass
EverySenderPasses(event, admin_only) == TRUE

\* main.py, lines 74-120
_check_admin_permission(event, admin_only) ==
    \/ ~admin_only
    \/ event.is_admin = "true"
    \/ event.is_admin # "raises" /\ Lower(event.role) = "admin"
    \/ event.listed

\* the command handlers of main.py
Commands == { "generate", "approve", "reject", "modify" }

\* AstrBot hands the event of a command to its handler, admin_only being
\* set or not in the configuration of the plugin
Arrives ==
    /\ InFlight = {}
    /\ commands < MaxCommands
    /\ \E event \in Senders, admin_only \in BOOLEAN :
          call' = [fn |-> "command", event |-> event, admin_only |-> admin_only,
                   command |-> "", warned |-> FALSE]
    /\ HelperIdle

\* main.py, lines 129-131, 213-214, 252-254, 292-294, 319-321: the handler
\* of the command yields the warning and returns
Denied ==
    /\ call.fn = "command"
    /\ ~call.warned
    /\ ~_check_admin_permission(call.event, call.admin_only)
    /\ \E c \in Commands : call' = [call EXCEPT !.command = c, !.warned = TRUE]
    /\ HelperIdle

\* the handler of the command goes on to the generator
Admitted(t) ==
    /\ call.fn = "command"
    /\ ~call.warned
    /\ _check_admin_permission(call.event, call.admin_only)
    /\ InFlight = {}
    /\ Calls(t)

NextGate ==
    \/ Arrives
    \/ Denied
    \/ \E t \in CallIds : Admitted(t)
    \/ \E t \in CallIds : Resumes(t)
    \/ Restart

\* the commands of any sender, one at a time
SpecGate == Init /\ [][NextGate]_vars
\* ---------------------------------------------------------------- claims
\* the metadata dict of the pending task
PendingMetadata == Deref(heap, pending_generation.metadata)

\* what a restart would load from the persisted record
ReloadedField(f, k) ==
    FieldValue(LoadedPending(EmptyPending, f, 1),
               LoadedHeap([i \in ObjIds |-> FreeCell], f, 1), k)

\* the fields of a task that are persisted
TaskFields ==
    { "active", "metadata", "markdown", "config_schema", "description",
      "umo", "timestamp", "awaiting_confirmation", "modification_history" }

\* the process restarts in this step
IsRestart ==
    /\ last_return' = NoReturn
    /\ commands' = commands
    /\ \A t \in CallIds : ~Running(tasks'[t])

\* the coroutine of slot t, suspended at pc, is resumed in this step
Resumed(t, pc) ==
    tasks[t].pc = pc /\ tasks'[t].pc # pc /\ ~IsRestart

\* a generate command is dispatched in this step
GenerateCalled ==
    /\ commands' = commands + 1
    /\ \/ last_return'.kind = "generate"
       \/ \E t \in CallIds : ~Running(tasks[t]) /\ tasks'[t].kind = "generate"

\* this step is a step of a generate_plugin_flow coroutine
GenerateStep ==
    \/ GenerateCalled
    \/ \E t \in CallIds : tasks[t].kind = "generate" /\ Resumed(t, tasks[t].pc)

\* the coroutine of slot t issues an LLM request of this kind in this step
Issues(t, kind) ==
    /\ Running(tasks'[t])
    /\ tasks'[t].request = kind
    /\ tasks'[t].pc # tasks[t].pc

BusyReturn ==
    [kind |-> "generate", feedback |-> FALSE, modification_type |-> "",
     result |-> Failure("busy"), requested |-> FALSE, notified |-> FALSE]

\* C1: a generate_plugin_flow call made while is_generating is true returns
\* the busy failure in the same step, having issued no LLM request and sent
\* no notification, and changes nothing: generation_status (is_generating,
\* current_step), the pending task, the persisted record, the configuration
\* and the running coroutines are as they were.
C1_SingleFlightGuard ==
    [][ (generation_status.is_generating /\ GenerateCalled)
          => /\ last_return' = BusyReturn
             /\ UNCHANGED << generation_status, pending_generation, heap,
                             state_file, installed, config, tasks >> ]_vars

\* a generate command was refused while another flow was running
C1_Witness ==
    /\ last_return = BusyReturn
    /\ generation_status.is_generating
    /\ InFlight # {}

\* the pending task waits for its confirmation
AwaitingConfirmation ==
    pending_generation.active /\ pending_generation.awaiting_confirmation

\* C2: while a task is active and awaiting confirmation, no step of a
\* generate_plugin_flow coroutine (which the claim has fail fast) replaces
\* the metadata, markdown, config schema or description of the pending
\* task, in memory or in the persisted record.
C2_OnePendingTask ==
    [][ (AwaitingConfirmation /\ GenerateStep)
           => /\ PendingMetadata' = PendingMetadata
              /\ pending_generation'.markdown = pending_generation.markdown
              /\ pending_generation'.config_schema = pending_generation.config_schema
              /\ pending_generation'.description = pending_generation.description
              /\ state_file' = state_file ]_vars

\* a new generate flow was not refused while a task awaits confirmation:
\* it has received its config schema and is about to store its own task
C2_Witness ==
    /\ AwaitingConfirmation
    /\ state_file.exists
    /\ \E t \in CallIds :
          /\ tasks[t].kind = "generate"
          /\ tasks[t].pc = "g_config"
          /\ tasks[t].description # pending_generation.description

\* the coroutine of slot t occupies a non-idle state of the pipeline
NonIdle(t) ==
    \/ Running(tasks[t]) /\ tasks[t].kind = "generate"
    \/ tasks[t].pc \in { "c_code", "c_review", "c_fix", "c_review_again",
                         "c_passed", "c_install", "c_installed" }

\* C3: at most one coroutine executes pipeline steps at any time, under
\* every interleaving: a generate flow and the code generation, review or
\* installation of an approved task never run together, nor do those of two
\* approved tasks.
C3_OneTaskNonIdle ==
    Cardinality({ t \in CallIds : NonIdle(t) }) <= 1

\* two approved runs of the same task generate and review code together
C3_Witness ==
    \A t \in CallIds :
       tasks[t].kind = "approve" /\ tasks[t].pc \in {"c_code", "c_review", "c_install"}

\* what the gate allows in a state
C4_GateState ==
    /\ ~config.auto_approve =>
          \A t \in CallIds :
             tasks[t].kind = "generate" =>
                tasks[t].request # "code" /\ tasks[t].pc \notin {"g_auto", "g_code"}
    /\ config.auto_approve => ~pending_generation.active /\ ~state_file.exists

\* what the gate allows in a step
C4_GateStep ==
    \A t \in CallIds :
       /\ (Resumed(t, "g_config") /\ Running(tasks'[t]) /\ ~config.auto_approve)
             => /\ tasks'[t].pc = "g_confirm"
                /\ AwaitingConfirmation'
                /\ state_file'.exists
                /\ \A k \in TaskFields :
                      state_file'.data[k] = FieldValue(pending_generation', heap', k)
       /\ Resumed(t, "g_confirm")
             => /\ last_return'.kind = "generate"
                /\ last_return'.result = PendingConfirmation
       /\ (Issues(t, "code") /\ ~config.auto_approve)
             => tasks'[t].kind = "approve" /\ pending_generation.active
       /\ (Resumed(t, "g_config") /\ Running(tasks'[t]) /\ config.auto_approve)
             => tasks'[t].pc = "g_auto"
       /\ Resumed(t, "g_auto")
             => Issues(t, "code") /\ tasks'[t].kind = "generate"

C5_RejectDeletesTask ==
    (last_return.kind = "reject" /\ last_return.result = Failure("rejected"))
        => (~pending_generation.active /\ ~state_file.exists)

\* C6: when continue_plugin_generation(approved=True) has returned with the
\* plugin installed or with a failure, the pending task is not active in
\* memory and its persisted record is removed.
C6_ApprovedTaskCleared ==
    (/\ last_return.kind = "approve"
     /\ last_return.result.returned = "dict"
     /\ last_return.result.error # "no_pending_task")
        => (~pending_generation.active /\ ~state_file.exists)

\* a step that saves, restarts or stores an event
C7_RoundTripStep ==
    /\ state_file' # state_file
          => /\ state_file'.exists
             /\ DOMAIN state_file'.data = TaskFields
             /\ AwaitingConfirmation'
             /\ \A k \in TaskFields :
                   ReloadedField(state_file', k) = FieldValue(pending_generation', heap', k)
             /\ LoadedPending(EmptyPending, state_file', 1).event = None
    /\ (IsRestart /\ state_file.exists)
          => /\ \A k \in TaskFields :
                   FieldValue(pending_generation', heap', k) = ReloadedField(state_file, k)
             /\ pending_generation'.event = None
    /\ \A t \in CallIds :
          ((Resumed(t, "c_entry") \/ Resumed(t, "m_entry")) /\ Running(tasks'[t]))
             => pending_generation'.event = Event
    /\ (pending_generation.event = None /\ pending_generation'.event # None)
          => \E t \in CallIds :
                /\ tasks'[t].pc # tasks[t].pc
                /\ tasks'[t].kind \in {"generate", "approve", "reject", "modify"}

\* C7: every record _save_pending_state writes holds exactly the nine
\* persisted fields of the task (no event), and a new PluginGenerator that
\* loads it has the same active flag, metadata, markdown, config_schema,
\* description, umo, timestamp, awaiting_confirmation flag and
\* modification_history as the task that was saved, with event = None; a
\* restart yields the fields of the persisted record, and the event stays
\* None until continue_plugin_generation or modify_plugin_content stores
\* the caller's.
C7_PersistenceRoundTrip == [][C7_RoundTripStep]_vars

\* a restarted process holds the reloaded task, with no event
C7_Witness ==
    /\ AwaitingConfirmation
    /\ pending_generation.event = None
    /\ state_file.exists
    /\ \A k \in TaskFields :
          FieldValue(pending_generation, heap, k) = state_file.data[k]
    /\ pending_generation.description \in Descriptions

\* the LLM requests a modification type may issue
RequestsOf(ty) ==
    IF ty = "config" THEN { "modify_config" }
    ELSE IF ty = "docs" THEN { "modify_docs" }
    ELSE IF ty = "metadata" THEN { "modify_metadata" }
    ELSE { "metadata", "docs", "config" }

\* the fields of the pending task no modification touches
KeptByModify ==
    /\ pending_generation'.active = pending_generation.active
    /\ pending_generation'.description = pending_generation.description
    /\ pending_generation'.umo = pending_generation.umo
    /\ pending_generation'.timestamp = pending_generation.timestamp
    /\ pending_generation'.modification_history = pending_generation.modification_history

\* what a step of a modify coroutine of this type leaves as it is
FrameOf(ty) ==
    /\ ty = "config" =>
          /\ PendingMetadata' = PendingMetadata
          /\ pending_generation'.markdown = pending_generation.markdown
    /\ ty = "docs" =>
          /\ pending_generation'.config_schema = pending_generation.config_schema
          /\ [PendingMetadata' EXCEPT !.markdown = ""] = [PendingMetadata EXCEPT !.markdown = ""]
    /\ ty = "metadata" =>
          /\ pending_generation'.markdown = pending_generation.markdown
          /\ pending_generation'.config_schema = pending_generation.config_schema

\* a step of a modify command
C8_ModifyStep ==
    \A t \in CallIds :
       /\ (tasks[t].kind = "modify" /\ Resumed(t, tasks[t].pc))
             => /\ FrameOf(tasks[t].modification_type)
                /\ KeptByModify
                /\ Running(tasks'[t]) =>
                      /\ tasks'[t].code = -1
                      /\ tasks'[t].request \in
                            RequestsOf(tasks[t].modification_type) \cup {""}
       /\ (Resumed(t, "m_update") /\ Running(tasks'[t]))
             => /\ AwaitingConfirmation'
                /\ PendingMetadata' = Deref(heap, tasks[t].metadata)
                /\ pending_generation'.markdown = tasks[t].markdown_doc
                /\ pending_generation'.config_schema = tasks[t].config_schema
                /\ state_file'.exists
                /\ \A k \in TaskFields :
                      state_file'.data[k] = FieldValue(pending_generation', heap', k)
       /\ Resumed(t, "m_return")
             => /\ last_return'.result \in { Success, Failure("modify_failed") }
                /\ AwaitingConfirmation'
                /\ \A k \in TaskFields :
                      state_file'.data[k] = FieldValue(pending_generation', heap', k)

\* C8: with the commands handled one at a time, every step of a modify
\* command of type config leaves metadata and markdown of the pending task
\* as they are, of type docs leaves the config schema and all of the
\* metadata but its markdown entry, of type metadata leaves markdown and
\* config schema; it issues only the requests of its type and never the code
\* request; the update step stores the regenerated items, keeps the task
\* active and awaiting confirmation and rewrites the persisted record to
\* equal the task in memory unless the command fails before it, and the
\* return leaves it so.
C8_ModifyFrame == [][C8_ModifyStep]_vars

\* a modify command of type docs returned success: the markdown of the
\* pending task and the markdown entry of its metadata are the modified
\* document, the config schema and the name are the generated ones
C8_Witness ==
    /\ last_return.kind = "modify"
    /\ last_return.modification_type = "docs"
    /\ last_return.result = Success
    /\ pending_generation.markdown = ModifiedDoc
    /\ PendingMetadata.markdown = ModifiedDoc
    /\ PendingMetadata.origin = "generated"
    /\ pending_generation.config_schema.json = "cfgA"

\* the frame as the claim words it: type docs changes the markdown only, so
\* the metadata dict is left as it is
FrameAsClaimed(ty) ==
    /\ FrameOf(ty)
    /\ ty = "docs" => PendingMetadata' = PendingMetadata

\* C8 as stated: a modify command of type docs changes nothing of the task
\* but its markdown field.
C8_OnlyMarkdownChanges ==
    [][ \A t \in CallIds :
          (tasks[t].kind = "modify" /\ Resumed(t, tasks[t].pc))
             => FrameAsClaimed(tasks[t].modification_type) ]_vars

\* the suspension points of code generation, review and installation
CodeOrInstallPcs ==
    { "g_auto", "g_code", "c_code", "c_review", "c_fix", "c_review_again",
      "c_passed", "c_install", "c_installed" }

\* C9: the metadata name of every persisted record starts with the prefix
\* astrbot_plugin_, and so does the name (in the metadata dict and in the
\* local plugin_name) of every task at code generation, review or install.
C9_NamePrefix ==
    /\ state_file.exists => startswith(state_file.data["metadata"].name, PREFIX)
    /\ \A t \in CallIds :
          tasks[t].pc \in CodeOrInstallPcs =>
             /\ startswith(Deref(heap, tasks[t].metadata).name, PREFIX)
             /\ startswith(tasks[t].plugin_name, PREFIX)

\* a task whose metadata a modify command regenerated is being installed,
\* and one whose metadata an approve with feedback optimized
C9_Witness ==
    /\ state_file.exists
    /\ state_file.data["metadata"].origin = "modified"
    /\ \E t \in CallIds :
          /\ tasks[t].pc = "c_install"
          /\ Deref(heap, tasks[t].metadata).origin = "optimized"
          /\ Deref(heap, tasks[t].metadata).name = <<PREFIX, "weather">>

\* the suspension points at which an LLM answer carrying a name arrives
NamePcs == { "g_metadata", "c_optimize", "m_metadata", "m_all_metadata", "m_all_docs" }

\* a step in which a name that is installed is assigned
C10_DuplicateStep ==
    \A t \in CallIds :
       (/\ tasks[t].pc \in NamePcs
        /\ Resumed(t, tasks[t].pc)
        /\ Running(tasks'[t])
        /\ tasks[t].plugin_name = <<>>
        /\ tasks'[t].plugin_name # <<>>
        /\ check_plugin_exists(tasks'[t].plugin_name))
          => /\ tasks'[t].request = ""
             /\ tasks'[t].pc \in { "g_exists", "c_exists" }

\* C10: in the step that assigns a task its normalized name (generate,
\* metadata or full modify, approve with feedback), if a plugin of that
\* name is installed, no LLM request is issued: the operation is on its way
\* to the 'already exists' failure, or has returned it.
C10_DuplicateName == [][C10_DuplicateStep]_vars


\* ---------------------------------------------------------------- the pipeline
\* the coroutine of slot t runs an approved task
Approved(t) == tasks[t].kind = "approve" /\ Running(tasks[t])

\* the coroutine of slot t receives a review result in this step
ReviewReturns(t) == Resumed(t, "c_review") \/ Resumed(t, "c_review_again")

\* the repairs started and the code versions of the loop: version 0 is the
\* generated code, each repair makes the next, and every review is of the
\* newest version, which no earlier review has seen
C11_LoopState ==
    \A t \in CallIds :
       Approved(t) =>
          /\ tasks[t].attempt <= config.max_retries
          /\ tasks[t].pc = "c_review" => tasks[t].attempt = 0 /\ tasks[t].code = 0
          /\ tasks[t].pc = "c_fix" =>
                tasks[t].attempt >= 1 /\ tasks[t].code = tasks[t].attempt - 1
          /\ tasks[t].pc = "c_review_again" => tasks[t].code = tasks[t].attempt
          /\ tasks[t].request = "review" => tasks[t].pc \in { "c_review", "c_review_again" }
          /\ tasks[t].request = "fix" => tasks[t].pc = "c_fix"

\* the steps of the loop
C11_LoopStep ==
    \A t \in CallIds :
       /\ Issues(t, "fix") =>
             /\ ReviewReturns(t)
             /\ tasks[t].attempt < config.max_retries
             /\ tasks'[t].attempt = tasks[t].attempt + 1
       /\ Issues(t, "review") =>
             /\ Resumed(t, "c_code") \/ Resumed(t, "c_fix")
             /\ tasks'[t].code = tasks[t].code + 1
       /\ ReviewReturns(t) =>
             \/ Issues(t, "fix")
             \/ tasks'[t].pc = "c_passed"
             \/ /\ last_return'.kind = "approve"
                /\ last_return'.result \in
                      { Failure("review_rejected"), Failure("review_flow_failed") }

InstallPcs == { "c_passed", "c_install", "c_installed" }

\* a review result that is approved with a score of at least the threshold
Satisfying(r) == r.approved /\ r.satisfaction_score >= config.satisfaction_threshold

\* a task at the installing step holds a satisfying review result
C13_GateState ==
    \A t \in CallIds :
       (Approved(t) /\ tasks[t].pc \in InstallPcs) => Satisfying(tasks[t].review_result)

\* the steps around the installing step
C13_GateStep ==
    /\ \A t \in CallIds :
          /\ (Approved(t) /\ tasks[t].pc \notin InstallPcs /\ tasks'[t].pc \in InstallPcs) =>
                /\ ReviewReturns(t)
                /\ tasks[t].request = "review"
                /\ tasks'[t].code = tasks[t].code
          /\ (Approved(t) /\ tasks[t].pc \in InstallPcs /\ Running(tasks'[t])) =>
                /\ tasks'[t].code = tasks[t].code
                /\ tasks'[t].review_result = tasks[t].review_result
          /\ (ReviewReturns(t) /\ last_return'.kind = "approve") =>
                /\ installed' = installed
                /\ last_return'.result = Failure("review_rejected") =>
                      tasks[t].attempt >= config.max_retries
          /\ (ReviewReturns(t) /\ tasks[t].attempt >= config.max_retries
                /\ tasks'[t].pc # "c_passed") =>
                /\ last_return'.kind = "approve"
                /\ last_return'.result \in
                      { Failure("review_rejected"), Failure("review_flow_failed") }
    /\ installed' # installed => \E t \in CallIds : Resumed(t, "c_install")

\* C13: the installing step is entered only from a review, of the code
\* that is then installed, that is approved with a score of at least the
\* threshold, and only that step changes the installed plugins; a review
\* not passed with the retry budget exhausted ends the task with the
\* 'review not passed' failure and installs nothing.
C13_InstallGate == [](C13_GateState) /\ [][C13_GateStep]_vars

\* a repaired code passed its review and was installed as files
C13_Witness ==
    \E t \in CallIds :
       /\ Approved(t)
       /\ tasks[t].pc = "c_installed"
       /\ tasks[t].code = 1
       /\ tasks[t].plugin_name \in installed

\* the coroutine of slot t takes the installing step in this step
Installs(t) == Resumed(t, "c_install")

CodeReturns(t) == Resumed(t, "g_code") \/ Resumed(t, "c_code")

\* C14: in both entry points, when the code-generation request returns, the
\* flow either reports that the generation failed or goes on to the review
\* of the generated code; it never returns with generated code that no
\* review has seen.
C14_CodeIsAudited ==
    [][ \A t \in CallIds :
          CodeReturns(t) =>
             \/ Issues(t, "review")
             \/ last_return'.result = Failure("code_failed") ]_vars

\* the auto-approved flow awaits its generated code
C14_Witness ==
    \E t \in CallIds :
       /\ tasks[t].kind = "generate"
       /\ tasks[t].pc = "g_code"
       /\ config.auto_approve

\* the three operations of the orchestrator
Operations == { "generate", "approve", "reject", "modify" }

\* C15: whatever generate_plugin_flow, continue_plugin_generation or
\* modify_plugin_content returns is a record with a success field, and it
\* carries an error message whenever success is false.
C15_StructuredResults ==
    last_return.kind \in Operations =>
       /\ last_return.result.returned = "dict"
       /\ ~last_return.result.success => last_return.result.error # ""

\* a generate_plugin_flow or continue_plugin_generation call is executing
\* in the coroutine of slot t (at c_entry the handler has not called it yet)
Executing(t) ==
    /\ Running(tasks[t])
    /\ tasks[t].kind \in { "generate", "approve", "reject" }
    /\ tasks[t].pc # "c_entry"

\* C16: whenever no generate_plugin_flow and no continue_plugin_generation
\* call is executing, generation_status has is_generating = false,
\* current_step = 0, progress_percentage = 0 and an empty plugin_name.
C16_StatusNeverStuck ==
    (\A t \in CallIds : ~Executing(t)) =>
       /\ ~generation_status.is_generating
       /\ generation_status.current_step = 0
       /\ generation_status.progress_percentage = 0
       /\ generation_status.plugin_name = <<>>

\* an approved task has ended with its review not passed and no flow is
\* executing
C16_Witness ==
    /\ last_return.kind = "approve"
    /\ last_return.result = Failure("review_rejected")
    /\ \A t \in CallIds : ~Executing(t)
    /\ generation_status = InitialStatus

\* the results the installing step may end with
InstallFailures == { Failure("api_install_failed"), Failure("file_install_failed") }

\* C17: the installing step follows the configured method: with 'file' the
\* plugin is installed by the file path (the step ends installed, or with
\* the file-install failure); with 'api' or 'auto' and an API password the
\* step ends installed or with an install failure; it never ends with
\* another error.
C17_InstallMethod ==
    [][ \A t \in CallIds :
          Installs(t) =>
             /\ config.install_method = "file" =>
                   \/ tasks'[t].pc = "c_installed"
                   \/ last_return'.result = Failure("file_install_failed")
             /\ config.install_method \in { "api", "auto" } =>
                   \/ tasks'[t].pc = "c_installed"
                   \/ last_return'.result \in InstallFailures ]_vars

\* a task whose review passed is at the installing step with install_method
\* 'file' and the API password configured
C17_Witness ==
    \E t \in CallIds :
       /\ Approved(t)
       /\ tasks[t].pc = "c_install"
       /\ config.install_method = "file"
       /\ config.api_password_md5 # ""

CriticalFinding ==
    \/ /\ report.auditor = "AstrbotPluginAuditor"
       /\ \E i \in DOMAIN report.astr_issues :
             Contains(report.astr_issues[i], CRITICAL)
    \/ /\ report.auditor = "AstrBotPluginAuditor"
       /\ report.critical # <<>>
    \/ /\ report.auditor = "StaticCodeAuditor"
       /\ \E k \in DOMAIN report.all_issues :
             report.all_issues[k] = Issue("astrbot", "error")

\* C20: a report aggregated from findings that hold at least one critical
\* finding (a '[CRITICAL]' rule issue of analyze_code, a non-empty critical
\* list of audit, an error-severity astrbot issue of analyze) has
\* approved = false, whatever its score and the threshold are.
C20_CriticalBlocksApproval ==
    CriticalFinding => ~report.result.approved

\* analyze_code met one critical rule issue and the score passes the threshold
C20_Witness ==
    /\ report.auditor = "AstrbotPluginAuditor"
    /\ CriticalFinding
    /\ report.result.satisfaction_score >= report.static_threshold
    /\ report.static_threshold = DefaultStaticThreshold
    /\ ~report.result.approved

\* the threshold an audit report is held against: the configured one of
\* AstrbotPluginAuditor, the constant of StaticCodeAuditor (line 356), and
\* the default one for AstrBotPluginAuditor, which is configured with none
ThresholdOf(r) ==
    IF r.auditor = "AstrbotPluginAuditor" THEN r.static_threshold
    ELSE IF r.auditor = "StaticCodeAuditor" THEN 80
    ELSE DefaultStaticThreshold

\* C21: an approved audit report has no critical finding and a score that
\* reaches the configured threshold; findings without a critical one whose
\* penalties bring the score below the threshold give a rejected report.
C21_ApprovalNeedsThreshold ==
    (report # NoReport /\ report.result.approved)
        => /\ ~CriticalFinding
           /\ report.result.satisfaction_score >= ThresholdOf(report)

\* audit approved findings whose score is below the threshold
C21_Witness ==
    /\ report.auditor = "AstrBotPluginAuditor"
    /\ report.critical = <<>>
    /\ report.normal # <<>>
    /\ report.result.satisfaction_score < DefaultStaticThreshold
    /\ report.result.approved

\* the number of findings a report was aggregated from
Findings(r) ==
    IF r.auditor = "AstrbotPluginAuditor"
    THEN r.tools[1] + r.tools[2] + r.tools[3] + Len(r.astr_issues)
    ELSE IF r.auditor = "AstrBotPluginAuditor"
    THEN Len(r.critical) + Len(r.normal) + r.tool_issue_cnt
    ELSE Len(r.all_issues)

C22_Range ==
    /\ report.result.satisfaction_score \in 0..100
    /\ Findings(report) = 0 => report.result.satisfaction_score = 100

C22_Step ==
    (report'.auditor = report.auditor /\ Findings(report') = Findings(report) + 1)
        => report'.result.satisfaction_score <= report.result.satisfaction_score

\* C22: the aggregated score is 100 without findings, lies in 0..100 for
\* every finding list, and never increases when one more finding (of any
\* tool and severity) is added to the list.
C22_ScoreRangeMonotone == [](C22_Range) /\ [][C22_Step]_vars

\* a finding was added to findings whose penalties exceed 100 already
C22_Witness ==
    /\ report.auditor = "AstrBotPluginAuditor"
    /\ Len(report.critical) = MaxCritical
    /\ report.normal # <<>>
    /\ report.result.satisfaction_score = 0

\* the findings of the rule engine in an audit report
RuleFindings(r) ==
    IF r.auditor = "AstrBotPluginAuditor" THEN r.critical \o r.normal
    ELSE IF r.auditor = "AstrPluginAuditor" THEN r.ast_issues
    ELSE IF r.auditor = "AstrBotCodeAuditor" THEN r.astrbot_issues
    ELSE r.astr_issues

\* the auditors of code_auditor.py, auditor.py and code_audit.py
ParsingAuditors == { "AstrBotPluginAuditor", "AstrPluginAuditor", "AstrbotPluginAuditor" }

\* the audit did not approve the code
Rejected(r) ==
    IF r.auditor = "AstrPluginAuditor" THEN ~r.result.passed
    ELSE ~r.result.approved

\* C23: for a source that does not parse the rule engine returns exactly one
\* finding, the critical one of the syntax error, and the audit is not
\* approved, whatever the threshold and the external tools are.
C23_ParseFailure ==
    (report.auditor \in ParsingAuditors /\ ~report.source.parses)
        => /\ Len(RuleFindings(report)) = 1
           /\ report.auditor = "AstrBotPluginAuditor"
                 => report.critical = << "syntax_error" >>
           /\ report.auditor = "AstrPluginAuditor"
                 => report.ast_issues = << "syntax_error" >>
           /\ report.auditor = "AstrbotPluginAuditor"
                 => Contains(report.astr_issues[1], CRITICAL)
           /\ Rejected(report)

\* analyze_code approved a source that does not parse
C23_Witness ==
    /\ report.auditor = "AstrbotPluginAuditor"
    /\ ~report.source.parses
    /\ report.astr_issues = <<>>
    /\ report.result.approved

\* the audit accepted the code
Accepts(r) ==
    IF r.auditor = "QualityChecker" THEN r.result.success
    ELSE r.result.approved

\* the issues of the aggregated result, and those among them of one tool
IssuesOf(r) == IF r.auditor = "AstrbotPluginAuditor" THEN r.issues ELSE r.result.issues
ToolIssuesOf(r, i) == SelectSeq(IssuesOf(r), LAMBDA x : x[1] = Tools[i])

\* tool i ran in the first audit and has the given status in the second
BecomesStatus(i, status) ==
    /\ report.env[i].status = "ran"
    /\ report'.env = [report.env EXCEPT ![i].status = status]

C25_TimeoutIsLocal ==
    [][ \A i \in 1..3 :
          BecomesStatus(i, "timeout")
             => /\ ToolIssuesOf(report', i) = << << Tools[i], "timeout", 0 >> >>
                /\ SelectSeq(IssuesOf(report'), LAMBDA x : x[1] # Tools[i])
                      = SelectSeq(IssuesOf(report), LAMBDA x : x[1] # Tools[i])
                /\ report.auditor = "AstrbotPluginAuditor"
                      => /\ \A j \in 1..3 \ {i} :
                               report'.details[j] = report.details[j]
                         /\ \A k \in DOMAIN report.astr_issues :
                               \E n \in DOMAIN report'.issues :
                                  report'.issues[n]
                                     = << "astrbot", "rule", report.astr_issues[k] >> ]_vars

\* ruff exceeded its timeout; pylint and the rules reported their issues
C25_Witness ==
    /\ report.auditor = "AstrbotPluginAuditor"
    /\ report.env[1].status = "timeout"
    /\ report.env[2] = [status |-> "ran", found |-> 1]
    /\ report.astr_issues # <<>>
    /\ Len(report.issues) = 2 + Len(_dedup_list(report.astr_issues))

\* the only finding of the rules is the missing `from astrbot.api import logger`
OnlyLoggerMissing(r) ==
    IF r.auditor = "AstrbotPluginAuditor"
    THEN r.astr_issues = << << "logger_import_missing" >> >>
    ELSE RuleFindings(r) = << "logger_import_missing" >>

\* the external tools of the audit found nothing
NoToolFinding(r) ==
    IF r.auditor = "AstrbotPluginAuditor" THEN r.tools = << 0, 0, 0 >>
    ELSE r.tool_issue_cnt = 0

\* C26: a source whose only rule finding is the missing import of the host
\* logger gets a warning that does not block: without tool findings and with
\* a score that reaches the threshold the audit approves it.
C26_LoggerImportAdvisory ==
    (/\ report.auditor \in ParsingAuditors
     /\ OnlyLoggerMissing(report)
     /\ NoToolFinding(report)
     /\ report.auditor # "AstrPluginAuditor"
           => report.result.satisfaction_score >= ThresholdOf(report))
        => /\ ~Rejected(report)
           /\ report.auditor = "AstrBotPluginAuditor" => report.critical = <<>>

\* audit of code_auditor.py rejected a code for the missing import alone
C26_Witness ==
    /\ report.auditor = "AstrBotPluginAuditor"
    /\ report.critical = << "logger_import_missing" >>
    /\ report.normal = <<>>
    /\ report.tool_issue_cnt = 0
    /\ report.result.satisfaction_score = 85
    /\ ~report.result.approved

\* how many findings of the rules are the finding `name`
CountOf(r, name) ==
    Cardinality({ k \in DOMAIN RuleFindings(r) : RuleFindings(r)[k] = name })

\* C27: for a method decorated as one of the four hooks, declared with def
\* or with async def, the rule engine returns exactly one critical finding of
\* the forbidden yield when its body yields, and none when it does not.
C27_YieldInHook ==
    (/\ report.auditor \in { "AstrBotPluginAuditor", "AstrPluginAuditor" }
     /\ report.source.parses
     /\ report.source.hook.kind \in HookKinds)
        => /\ CountOf(report, "hook_yield")
                 = IF report.source.hook.yields THEN 1 ELSE 0
           /\ (report.auditor = "AstrBotPluginAuditor" /\ report.source.hook.yields)
                 => Contains(report.critical, "hook_yield")

\* audit of code_auditor.py found no yield in an `async def` hook that yields
C27_Witness ==
    /\ report.auditor = "AstrBotPluginAuditor"
    /\ report.source.parses
    /\ report.source.hook.kind = "after_message_sent"
    /\ report.source.hook.is_async
    /\ report.source.hook.yields
    /\ CountOf(report, "hook_yield") = 0

\* C28: for a method decorated with on_llm_request or on_llm_response the
\* rule engine returns exactly one finding of the arity when the method
\* declares fewer than three parameters, and none when it declares three or
\* more.
C28_HookArity ==
    (/\ report.auditor \in { "AstrBotPluginAuditor", "AstrPluginAuditor",
                             "AstrBotCodeAuditor" }
     /\ report.source.parses
     /\ report.source.hook.kind \in LlmHooks)
        => CountOf(report, "hook_arity")
              = IF report.source.hook.params < 3 THEN 1 ELSE 0

\* audit_code of astrbot_code_auditor.py found the arity of a hook with four
\* parameters wrong
C28_Witness ==
    /\ report.auditor = "AstrBotCodeAuditor"
    /\ report.source.parses
    /\ report.source.hook.kind = "on_llm_request"
    /\ report.source.hook.is_async
    /\ report.source.hook.params = 4
    /\ CountOf(report, "hook_arity") = 1

\* the findings of the rules that block the approval: the critical ones, and
\* every finding of auditor.py, whose issues have no severity and block alike
BlockingFindings(r) ==
    IF r.auditor = "AstrBotPluginAuditor" THEN Len(r.critical)
    ELSE IF r.auditor = "AstrPluginAuditor" THEN Len(r.ast_issues)
    ELSE Cardinality({ k \in DOMAIN r.astr_issues :
                          Contains(r.astr_issues[k], CRITICAL) })

\* the source holds the line `import logging` and no class derived from Star
ScenarioA(s) == s.logging = "import" /\ ~s.star

\* C29 as stated: every source with `import logging` and without a class
\* derived from Star gets at least two critical findings and is not approved.
C29_ScenarioA_AnySource ==
    (report.auditor \in ParsingAuditors /\ ScenarioA(report.source))
        => /\ BlockingFindings(report) >= 2
           /\ Rejected(report)

\* C29: every source that parses, holds `import logging` and declares no
\* class derived from Star gets at least two critical findings, the banned
\* import and the missing base class, and is not approved.
C29_ScenarioA ==
    (/\ report.auditor \in ParsingAuditors
     /\ ScenarioA(report.source)
     /\ report.source.parses)
        => /\ BlockingFindings(report) >= 2
           /\ Rejected(report)
           /\ report.auditor # "AstrbotPluginAuditor"
                 => /\ CountOf(report, "logging_module") = 1
                    /\ CountOf(report, "no_star_class") = 1
           /\ report.auditor = "AstrbotPluginAuditor"
                 => /\ Contains(report.astr_issues, << CRITICAL, "logging_module" >>)
                    /\ Contains(report.astr_issues, << CRITICAL, "no_star_class" >>)

\* audit of code_auditor.py on such a source that is otherwise in order
C29_Witness ==
    /\ report.auditor = "AstrBotPluginAuditor"
    /\ ScenarioA(report.source)
    /\ report.source.parses
    /\ report.source.logger
    /\ report.critical = << "logging_module", "no_star_class" >>
    /\ ~report.result.approved

\* C30: in audit_code of astrbot_code_auditor.py a source that imports the
\* logging module or the requests client never passes the rules and is never
\* approved, whether the tools pass, fail or are absent, and whether or not
\* the source declares a class derived from Star.
C30_BannedImportsBlock ==
    (/\ report.auditor = "AstrBotCodeAuditor"
     /\ \/ report.source.logging # "none"
        \/ report.source.requests # "none")
        => /\ ~report.result.astrbot_rules_passed
           /\ ~report.result.approved

\* audit_code approved a source that holds `import os, logging`
C30_Witness ==
    /\ report.auditor = "AstrBotCodeAuditor"
    /\ report.source.logging = "list"
    /\ report.source.requests = "none"
    /\ report.source.star
    /\ report.result.astrbot_rules_passed
    /\ report.result.approved

\* the source parses, imports the host logger and filter, declares a class
\* derived from Star, imports neither logging nor requests, and has one
\* `@filter.command` handler declared with async def that takes the event
ScenarioB(s) ==
    /\ s.parses
    /\ s.logger /\ s.filter /\ s.star
    /\ s.logging = "none" /\ s.requests = "none"
    /\ s.hook.kind = "command" /\ s.hook.is_async /\ s.hook.params >= 2

ProseAt(c) == { k \in DOMAIN c.responses : c.responses[k] = "prose" }

\* C32: a repair issues at most max_retries LLM calls; it returns the code
\* block of the first response that holds one; after each response without
\* a block that is not the last one a format instruction is added to the
\* prompt; without any block it fails, with the exception of the LLM when
\* the last attempt raised and with the error of the extraction otherwise,
\* and it returns neither empty nor unrepaired code.
C32_RepairBounded ==
    call.fn = "fix_plugin_code"
        => LET n == Len(call.responses) IN
           /\ n <= call.max_retries
           /\ \A k \in 1..(n - 1) : call.responses[k] # "block"
           /\ call.instructions
                 = Cardinality({ k \in ProseAt(call) : k < call.max_retries })
           /\ call.outcome = "returned"
                 <=> (n > 0 /\ call.responses[n] = "block")
           /\ call.outcome = "returned" <=> call.returned = FixedCode
           /\ call.outcome # "returned" => call.returned = ""
           /\ call.outcome = "llm_error"
                 <=> (n = call.max_retries /\ n > 0 /\ call.responses[n] = "raise")
           /\ call.outcome = "no_code_error"
                 <=> (n = call.max_retries /\ (n > 0 => call.responses[n] = "prose"))
           /\ call.outcome = "running" => n < call.max_retries

\* the default repair got a response without a block, an exception, and
\* then a response with the fixed code
C32_Witness ==
    /\ call.fn = "fix_plugin_code"
    /\ call.max_retries = DefaultRepairTries
    /\ call.responses = << "prose", "raise", "block" >>
    /\ call.instructions = 1
    /\ call.outcome = "returned"

\* C33: when the review call failed on every one of its tries the audit step
\* fails and the task ends failed: no repair is requested for a review that
\* never ran, so a task that waits for a repair holds the result of a review
\* the LLM gave.
C33_NoRepairWithoutReview ==
    \A t \in CallIds :
       (tasks[t].pc = "c_fix" /\ tasks[t].request = "fix")
          => tasks[t].review_result # NoReview

\* a repair was requested with the default result of a review that failed
\* on every try
C33_Witness ==
    \E t \in CallIds :
       /\ tasks[t].pc = "c_fix"
       /\ tasks[t].request = "fix"
       /\ tasks[t].attempt = 1
       /\ tasks[t].review_result = NoReview
       /\ config.max_retries >= 1

\* the step of the pipeline a suspended flow is at: 1 metadata, 2 docs,
\* 3 config schema, 4 code generation, 5 review and repair, 6 install; the
\* requests before the first step of a flow are at 0
StepOfPc ==
    [pc \in { "g_dir_invalid", "c_entry", "c_rejected" } |-> 0]
    @@ [pc \in { "g_metadata", "g_exists", "c_optimize" } |-> 1]
    @@ [pc \in { "g_docs" } |-> 2]
    @@ [pc \in { "g_config", "g_confirm", "g_auto", "c_optimize_config",
                 "c_exists", "c_continue" } |-> 3]
    @@ [pc \in { "g_code", "c_code" } |-> 4]
    @@ [pc \in { "c_review", "c_fix", "c_review_again" } |-> 5]
    @@ [pc \in { "c_passed", "c_install", "c_installed" } |-> 6]

\* the step to which a request belongs
StepOfRequest ==
    [metadata |-> 1, optimize |-> 1, docs |-> 2, config |-> 3, code |-> 4,
     review |-> 5, fix |-> 5]

\* flow t is executing and suspended before the step and after it
StaysSuspended(t) ==
    /\ tasks[t].kind \in { "generate", "approve" }
    /\ Running(tasks[t])
    /\ tasks[t].pc # "c_entry"
    /\ Running(tasks'[t])

C34_Step ==
    /\ \A t \in CallIds :
          StaysSuspended(t)
             => /\ StepOfPc[tasks'[t].pc] >= StepOfPc[tasks[t].pc]
                /\ tasks'[t].request # ""
                      => StepOfRequest[tasks'[t].request] = StepOfPc[tasks'[t].pc]
                /\ tasks'[t].pc \in { "c_passed", "c_install", "c_installed" }
                      => tasks[t].pc \in { "c_review", "c_review_again", "c_passed",
                                           "c_install" }
    /\ (\E t \in CallIds : StaysSuspended(t))
          => generation_status'.current_step >= generation_status.current_step

\* C34: within one task the requests are issued in the order metadata,
\* docs, config schema, code generation, review, and the installation comes
\* after the review; a request is issued when the flow is resumed with the
\* result of the previous one; and current_step never decreases while a
\* flow is executing.
C34_StepsInSequence == [][C34_Step]_vars

\* one flow is at its review while another flow of the same task has set
\* the step back to the code generation
C34_Witness ==
    \E t, u \in CallIds :
       /\ tasks[t].pc = "c_review" /\ tasks[t].request = "review"
       /\ tasks[u].pc = "c_code" /\ tasks[u].request = "code"
       /\ generation_status.current_step = 4

\* modify_plugin_content of slot t returns a failure in this step, after it
\* found a pending task
ModifyFails(t) ==
    /\ tasks[t].kind = "modify"
    /\ tasks[t].pc \notin { "free", "m_entry" }
    /\ ~Running(tasks'[t])
    /\ last_return'.kind = "modify"
    /\ ~last_return'.result.success

C35_Step ==
    \A t \in CallIds :
       ModifyFails(t)
          => /\ PendingView(pending_generation', heap', state_file') = tasks[t].seen
             /\ pending_generation'.active
             /\ pending_generation'.awaiting_confirmation

\* C35: when modify_plugin_content returns success = false the metadata of
\* the pending task, with the markdown it embeds, its markdown and its
\* config schema are as the call found them, in memory and in the persisted
\* record, and the task is still active and awaiting confirmation.
C35_FailedModifyFrame == [][C35_Step]_vars

\* a modification of the document has failed at the send after the new
\* document was stored in the metadata of the pending task
C35_Witness ==
    /\ last_return.kind = "modify"
    /\ last_return.modification_type = "docs"
    /\ last_return.result = Failure("modify_failed")
    /\ pending_generation.active
    /\ pending_generation.markdown = GeneratedDoc
    /\ PendingMetadata.markdown = ModifiedDoc
    /\ InFlight = {}

\* generate_plugin_flow of slot t returns in this step
GenerateReturns(t) ==
    /\ tasks[t].kind = "generate"
    /\ Running(tasks[t])
    /\ ~Running(tasks'[t])
    /\ last_return'.kind = "generate"

\* generate_plugin_flow is called in slot t in this step
GenerateStarts(t) ==
    /\ ~Running(tasks[t])
    /\ tasks'[t].kind = "generate"

C36_Step ==
    /\ \A t \in CallIds :
          GenerateReturns(t)
             => config'.api_password_md5 = tasks[t].saved_api_pwd
    /\ \A t \in CallIds :
          (GenerateStarts(t) /\ Running(tasks'[t]))
             => /\ tasks'[t].saved_api_pwd = config.api_password_md5
                /\ config'.api_password_md5 \in { "", config.api_password_md5 }
    /\ config'.api_password_md5 # config.api_password_md5
          => \/ IsRestart
             \/ \E t \in CallIds : GenerateReturns(t) \/ GenerateStarts(t)

\* C36: generate_plugin_flow may blank the API password of the
\* configuration while it runs; when it returns, by whatever path, the
\* password is the one it found when it was called, and
\* continue_plugin_generation never changes it.
C36_PasswordRestored == [][C36_Step]_vars

\* with the installation by files chosen and a password configured, a flow
\* has blanked the password, stored the pending task and returned: the
\* password is back
C36_Witness ==
    /\ config.install_method = "file"
    /\ config.api_password_md5 # ""
    /\ last_return.kind = "generate"
    /\ last_return.result = PendingConfirmation
    /\ InFlight = {}

\* the result of a call of _normalize_review_result that returned
Normalized == call.review_result
NormalizeReturned ==
    call.fn = "_normalize_review_result" /\ Normalized.raised = ""

\* what holds of every normalised review result: a boolean verdict, lists
\* of issues and suggestions, a whole-numbered score
C37_Shape ==
    NormalizeReturned
       => /\ Normalized.approved \in BOOLEAN
          /\ Normalized.issues \in Seq({ "item", "why", "text", "{}" })
          /\ Normalized.suggestions
                \in Seq({ "item", "fix: why", "fix: text" })
          /\ Normalized.satisfaction_score \in Int
          /\ call.passed
                <=> (Normalized.approved /\ Normalized.satisfaction_score
                                              >= config.satisfaction_threshold)

\* C37: after _normalize_review_result, approved is a boolean, issues and
\* suggestions are lists and the satisfaction score is an integer within
\* 0..100, for every review payload.
C37_ScoreWithinRange ==
    NormalizeReturned
       => /\ C37_Shape
          /\ Normalized.satisfaction_score \in 0..100

\* a payload with a score above 100 was normalised
C37_Witness ==
    /\ NormalizeReturned
    /\ call.result.satisfaction_score = Value("num", 1500, "")
    /\ call.result.approved = Value("bool", 1, "")
    /\ call.passed

\* continue_plugin_generation(approved=True) of slot t has returned, or the
\* process went down under it
HasReturned(t) ==
    /\ ~Running(tasks[t])
    /\ \/ last_return = NoReturn
       \/ /\ last_return.kind = "approve"
          /\ last_return.result.returned = "dict"
          /\ last_return.result.success \/ last_return.result.error # ""

\* what holds in every state of a run: the unlimited mode never fails for
\* an exhausted budget, a finite budget N bounds the repairs of a task by N,
\* and no task gets past the installing step by the API, which line 993
\* leaves before its first attempt
C38_Bounds ==
    /\ (config.max_retries = -1 /\ last_return.kind = "approve")
          => last_return.result # Failure("review_rejected")
    /\ \A t \in CallIds :
          Approved(t)
             => /\ config.max_retries >= 0 => tasks[t].attempt <= config.max_retries
                /\ tasks[t].pc = "c_installed" => ~ApiEnabled(config)

\* C38: when every awaited call returns, continue_plugin_generation with a
\* finite retry budget N >= 0 eventually returns with success or with a
\* failure, after at most N repairs of the review loop and at most N + 1
\* API installation attempts; with the unlimited budget it never fails for
\* an exhausted budget.
C38_Terminates ==
    /\ \A t \in CallIds :
          (Approved(t) /\ config.max_retries >= 0) ~> HasReturned(t)
    /\ []C38_Bounds

\* with the unlimited budget the loop also ends
C38_UnlimitedTerminates ==
    \A t \in CallIds : Approved(t) ~> HasReturned(t)

\* a task with the budget of two repairs used both of them and returned
\* the failure of the review
C38_Witness ==
    /\ config.max_retries = 2
    /\ last_return.kind = "approve"
    /\ last_return.result = Failure("review_rejected")
    /\ InFlight = {}

\* analyze_code is being called
Analyzing == call.fn = "analyze_code"

\* the results of all four tasks are aggregated when analyze_code returns
C39_FanIn ==
    Analyzing
       => /\ call.outcome = "returned" <=> call.used = JobIds
          /\ call.outcome = "returned"
                => \A k \in JobIds : call.job[k] = "returned"
          /\ call.outcome # "gathering" <=> call.temp_dir = "removed"

\* C39: the four tasks of analyze_code are started together and the
\* aggregation uses the results of all four; the private temporary
\* directory is removed only after all four tasks have finished, on every
\* exit path.
C39_RemovedAfterAllFinished ==
    Analyzing
       => /\ C39_FanIn
          /\ call.temp_dir = "removed" => call.unfinished = {}

\* a tool task raised while another tool was running in the directory, and
\* analyze_code has left with the exception
C39_Witness ==
    /\ Analyzing
    /\ call.outcome = "raised"
    /\ call.temp_dir = "removed"
    /\ \E k \in JobIds : call.job[k] = "spawned" /\ k \in call.unfinished

\* none of the admin checks succeeds for the sender of the command at hand
NoCheckSucceeds ==
    /\ call.event.is_admin # "true"
    /\ call.event.role \notin { "admin", "Admin" }
    /\ ~call.event.listed

\* a step that calls the generator: a coroutine is started, or a command is
\* counted
GeneratorCalled ==
    \/ \E t \in CallIds : ~Running(tasks[t]) /\ Running(tasks'[t])
    \/ commands' > commands

C40_Step ==
    /\ GeneratorCalled
          => /\ call.fn = "command"
             /\ ~call.warned
             /\ ~(call.admin_only /\ NoCheckSucceeds)
    /\ (call.fn = "command" /\ ~call.warned /\ call.admin_only
           /\ NoCheckSucceeds /\ ~IsRestart)
          => /\ UNCHANGED << generation_status, pending_generation, heap,
                             state_file, installed, config, tasks,
                             last_return, commands >>
             /\ call' # call
                   => \/ call'.warned /\ call'.command \in Commands
                            /\ call'.event = call.event
                      \/ ~call'.warned /\ call'.command = ""
    /\ (call'.fn = "command" /\ call'.warned /\ call' # call)
          => /\ call.fn = "command" /\ ~call.warned /\ call.admin_only
             /\ UNCHANGED << generation_status, pending_generation, heap,
                             state_file, installed, config, tasks,
                             last_return, commands >>

\* C40: with admin_only set, a generate, approve, reject or modify command
\* of a sender for whom no admin check succeeds is answered with the
\* warning and nothing else: no coroutine of the generator is started, no
\* request is issued, generation_status and the pending task stay as they
\* are; with admin_only not set no sender is turned away.
C40_AdminGate == [][C40_Step]_vars

\* with a task awaiting confirmation, an approve command of a sender who is
\* no admin was answered with the warning
C40_Witness ==
    /\ call.fn = "command"
    /\ call.warned
    /\ call.command = "approve"
    /\ call.admin_only
    /\ NoCheckSucceeds
    /\ AwaitingConfirmation
    /\ InFlight = {}
====
